---- MODULE Spec2Model ----
(***************************************************************************)
(* OmNomNom: recipe scaling (POST /api/recipes/:id/scale), shopping list   *)
(* generation (POST /api/shopping-lists/generate), the recipe endpoints    *)
(* (create, update, read, visibility, public feed), the shopping list      *)
(* endpoints whose statements interleave with those of other requests,     *)
(* getOrCreateIngredient, and the rate limiter of the middleware.          *)
(*                                                                         *)
(* Numbers are JavaScript numbers (IEEE-754 binary64).  A finite non-zero  *)
(* number is sg * m * 2^e with 2^52 <= m < 2^53; m is kept as a sequence   *)
(* of base-4096 limbs, least significant first, because it does not fit    *)
(* the integers of the checker.  Every arithmetic step of the handlers is  *)
(* rounded to nearest, ties to even, as the hardware does.                 *)
(* Strings are sequences of one-character strings.                         *)
(* Quantities (numeric(10,2)) are counted in hundredths, desired_servings  *)
(* in halves (so 0.5 is 1 and 1000 is 2000); both convert to the binary64  *)
(* nearest to the decimal before the handler computes with them.           *)
(***************************************************************************)
EXTENDS Integers, Sequences, FiniteSets, TLC

(***************************************************************************)
(* Natural numbers of any size                                             *)
(***************************************************************************)
LimbBase == 4096
LimbBits == 12
MantBits == 53

Pow2(k) == IF k = 0 THEN 1 ELSE IF k = 1 THEN 2 ELSE IF k = 2 THEN 4
           ELSE IF k = 3 THEN 8 ELSE IF k = 4 THEN 16 ELSE IF k = 5 THEN 32
           ELSE IF k = 6 THEN 64 ELSE IF k = 7 THEN 128 ELSE IF k = 8 THEN 256
           ELSE IF k = 9 THEN 512 ELSE IF k = 10 THEN 1024
           ELSE IF k = 11 THEN 2048 ELSE 4096

RECURSIVE BNorm(_)
BNorm(N) == IF N = <<>> THEN <<>>
            ELSE IF N[Len(N)] = 0 THEN BNorm(SubSeq(N, 1, Len(N) - 1))
            ELSE N

RECURSIVE BFromInt(_)
BFromInt(a) == IF a = 0 THEN <<>>
               ELSE <<a % LimbBase>> \o BFromInt(a \div LimbBase)

RECURSIVE BToInt(_)
BToInt(N) == IF N = <<>> THEN 0
             ELSE N[1] + LimbBase * BToInt(Tail(N))

RECURSIVE BMulCarry(_, _, _)
BMulCarry(N, c, carry) ==
    IF N = <<>> THEN BFromInt(carry)
    ELSE LET t == N[1] * c + carry
         IN  <<t % LimbBase>> \o BMulCarry(Tail(N), c, t \div LimbBase)

BMulSmall(N, c) == BNorm(BMulCarry(N, c, 0))

RECURSIVE BAddCarry(_, _, _)
BAddCarry(N, M, carry) ==
    IF N = <<>> /\ M = <<>> THEN BFromInt(carry)
    ELSE LET a == IF N = <<>> THEN 0 ELSE N[1]
             b == IF M = <<>> THEN 0 ELSE M[1]
             t == a + b + carry
         IN  <<t % LimbBase>>
             \o BAddCarry(IF N = <<>> THEN <<>> ELSE Tail(N),
                          IF M = <<>> THEN <<>> ELSE Tail(M),
                          t \div LimbBase)

BAdd(N, M) == BNorm(BAddCarry(N, M, 0))

BShiftLimbs(N, k) == IF N = <<>> THEN <<>> ELSE [i \in 1..k |-> 0] \o N

RECURSIVE BMul(_, _)
BMul(N, M) ==
    IF M = <<>> \/ N = <<>> THEN <<>>
    ELSE BAdd(BMulSmall(N, M[1]), BShiftLimbs(BMul(N, Tail(M)), 1))

RECURSIVE IntBitLen(_)
IntBitLen(a) == IF a = 0 THEN 0 ELSE 1 + IntBitLen(a \div 2)

BBitLen(N) == IF N = <<>> THEN 0
              ELSE LimbBits * (Len(N) - 1) + IntBitLen(N[Len(N)])

\* floor(N / 2^b) for 0 <= b < LimbBits
RECURSIVE BShrBits(_, _)
BShrBits(N, b) ==
    IF N = <<>> THEN <<>>
    ELSE LET hi == IF Len(N) >= 2 THEN N[2] % Pow2(b) ELSE 0
         IN  <<(N[1] \div Pow2(b)) + hi * Pow2(LimbBits - b)>>
             \o BShrBits(Tail(N), b)

\* floor(N / 2^j)
BShr(N, j) ==
    LET drop == j \div LimbBits
    IN  IF drop >= Len(N) THEN <<>>
        ELSE BNorm(BShrBits(SubSeq(N, drop + 1, Len(N)), j % LimbBits))

\* N * 2^j
BShl(N, j) ==
    BShiftLimbs(BMulSmall(N, Pow2(j % LimbBits)), j \div LimbBits)

\* N mod 2^j = 0
BLowZero(N, j) ==
    LET drop == j \div LimbBits
    IN  /\ \A i \in 1..drop : i > Len(N) \/ N[i] = 0
        /\ (drop + 1 > Len(N) \/ N[drop + 1] % Pow2(j % LimbBits) = 0)

BOdd(N) == N # <<>> /\ N[1] % 2 = 1

\* floor((a * LimbBase^k) / b) as k + (limbs of a) limbs, with the remainder
RECURSIVE BDivSmallRev(_, _, _)
BDivSmallRev(R, b, rem) ==
    \* R is most significant limb first; the result is most significant first
    IF R = <<>> THEN <<rem>>
    ELSE LET t == rem * LimbBase + R[1]
         IN  <<t \div b>> \o BDivSmallRev(Tail(R), b, t % b)

Reverse(s) == [i \in 1..Len(s) |-> s[Len(s) + 1 - i]]

\* [q |-> floor(N / b), r |-> N mod b] for 0 < b < 2^19
BDivSmall(N, b) ==
    LET out == BDivSmallRev(Reverse(N), b, 0)
    IN  [q |-> BNorm(Reverse(SubSeq(out, 1, Len(out) - 1))),
         r |-> out[Len(out)]]

(***************************************************************************)
(* JavaScript numbers                                                      *)
(***************************************************************************)
NumZero == [k |-> "zero", sg |-> 1, m |-> <<>>, e |-> 0]
NumNaN == [k |-> "nan", sg |-> 1, m |-> <<>>, e |-> 0]
NumInf(sg) == [k |-> "inf", sg |-> sg, m |-> <<>>, e |-> 0]

Abs(a) == IF a < 0 THEN -a ELSE a
Sign(a) == IF a < 0 THEN -1 ELSE 1

\* The binary64 nearest to sg * (N + t) * 2^e, where N > 0 and 0 <= t < 1
\* with t # 0 exactly when sticky: round to nearest, ties to even.
RoundToDouble(sg, N, e, sticky) ==
    LET bl == BBitLen(N)
    IN  IF bl <= MantBits
        THEN [k |-> "fin", sg |-> sg, m |-> BShl(N, MantBits - bl),
              e |-> e - (MantBits - bl)]
        ELSE LET j == bl - MantBits
                 Q == BShr(N, j)
                 rb == BOdd(BShr(N, j - 1))
                 st == sticky \/ ~BLowZero(N, j - 1)
                 up == rb /\ (st \/ BOdd(Q))
                 M == IF up THEN BAdd(Q, <<1>>) ELSE Q
             IN  IF BBitLen(M) > MantBits
                 THEN [k |-> "fin", sg |-> sg, m |-> BShr(M, 1), e |-> e + j + 1]
                 ELSE [k |-> "fin", sg |-> sg, m |-> M, e |-> e + j]

RatioLimbs == 8

\* The binary64 nearest to a / b for integers a and b # 0: what JSON.parse
\* gives for a decimal literal, and what the division of two exactly
\* representable numbers gives.
NumFromRatio(a, b) ==
    IF a = 0 THEN NumZero
    ELSE LET d == BDivSmall(BShiftLimbs(BFromInt(Abs(a)), RatioLimbs), Abs(b))
         IN  RoundToDouble(Sign(a) * Sign(b), d.q, -(LimbBits * RatioLimbs),
                           d.r # 0)

\* x * y
NumMul(x, y) ==
    IF x.k = "nan" \/ y.k = "nan" THEN NumNaN
    ELSE IF x.k = "inf" \/ y.k = "inf"
         THEN IF x.k = "zero" \/ y.k = "zero" THEN NumNaN
              ELSE NumInf(x.sg * y.sg)
    ELSE IF x.k = "zero" \/ y.k = "zero" THEN NumZero
    ELSE RoundToDouble(x.sg * y.sg, BMul(x.m, y.m), x.e + y.e, FALSE)

\* x + y for numbers of the same sign
NumAdd(x, y) ==
    IF x.k = "nan" \/ y.k = "nan" THEN NumNaN
    ELSE IF x.k = "inf" THEN x
    ELSE IF y.k = "inf" THEN y
    ELSE IF x.k = "zero" THEN y
    ELSE IF y.k = "zero" THEN x
    ELSE LET e == IF x.e < y.e THEN x.e ELSE y.e
         IN  RoundToDouble(x.sg,
                           BAdd(BShl(x.m, x.e - e), BShl(y.m, y.e - e)),
                           e, FALSE)

\* The result of Math.round(x) / 100: the binary64 nearest to h / 100, kept
\* as the integer h, or one of the values that are not finite.
Hundredths(h) == [kind |-> "num", h |-> h]
NonFinite(kind) == [kind |-> kind, h |-> 0]

\* Math.floor in place of Math.round
MathFloorMutant(x) ==
    IF x.k = "nan" THEN NonFinite("NaN")
    ELSE IF x.k = "inf"
         THEN NonFinite(IF x.sg = 1 THEN "Infinity" ELSE "-Infinity")
    ELSE IF x.k = "zero" THEN Hundredths(0)
    ELSE IF x.e >= 0 THEN Hundredths(x.sg * BToInt(BShl(x.m, x.e)))
    ELSE LET fl == BToInt(BShr(x.m, -x.e))
             exact == BLowZero(x.m, -x.e)
         IN  IF x.sg = 1 THEN Hundredths(fl)
             ELSE Hundredths(-(fl + (IF exact THEN 0 ELSE 1)))

\* Math.ceil in place of Math.round
MathCeilMutant(x) ==
    IF x.k = "nan" THEN NonFinite("NaN")
    ELSE IF x.k = "inf"
         THEN NonFinite(IF x.sg = 1 THEN "Infinity" ELSE "-Infinity")
    ELSE IF x.k = "zero" THEN Hundredths(0)
    ELSE IF x.e >= 0 THEN Hundredths(x.sg * BToInt(BShl(x.m, x.e)))
    ELSE LET fl == BToInt(BShr(x.m, -x.e))
             exact == BLowZero(x.m, -x.e)
         IN  IF x.sg = 1 THEN Hundredths(fl + (IF exact THEN 0 ELSE 1))
             ELSE Hundredths(-fl)

\* Math.round(x) / 100: Math.round rounds to the nearest integer, a tie
\* towards +Infinity.
MathRound(x) ==
    IF x.k = "nan" THEN NonFinite("NaN")
    ELSE IF x.k = "inf"
         THEN NonFinite(IF x.sg = 1 THEN "Infinity" ELSE "-Infinity")
    ELSE IF x.k = "zero" THEN Hundredths(0)
    ELSE IF x.e >= 0 THEN Hundredths(x.sg * BToInt(BShl(x.m, x.e)))
    ELSE LET j == -x.e
             fl == BToInt(BShr(x.m, j))
             half == BOdd(BShr(x.m, j - 1))
             st == ~BLowZero(x.m, j - 1)
         IN  IF x.sg = 1
             THEN Hundredths(fl + (IF half THEN 1 ELSE 0))
             ELSE Hundredths(-(fl + (IF half /\ st THEN 1 ELSE 0)))

Num100 == NumFromRatio(100, 1)

\* Math.round(x * 100) / 100
Round2(x) == MathRound(NumMul(x, Num100))

\* JSON.stringify of a number: a value that is not finite becomes null
JsonNull == [kind |-> "null", h |-> 0]
JsonNumber(r) == IF r.kind = "num" THEN r ELSE JsonNull

(***************************************************************************)
(* Strings                                                                 *)
(***************************************************************************)
UpperCase == <<"A", "B", "C", "D", "E", "F", "G", "H", "I", "J", "K", "L", "M",
               "N", "O", "P", "Q", "R", "S", "T", "U", "V", "W", "X", "Y", "Z">>
LowerCase == <<"a", "b", "c", "d", "e", "f", "g", "h", "i", "j", "k", "l", "m",
               "n", "o", "p", "q", "r", "s", "t", "u", "v", "w", "x", "y", "z">>
WhiteSpace == {" ", "\t", "\n"}

ToLowerChar(c) ==
    IF \E j \in 1..Len(UpperCase) : UpperCase[j] = c
    THEN LowerCase[CHOOSE j \in 1..Len(UpperCase) : UpperCase[j] = c]
    ELSE c

\* String.prototype.toLowerCase
ToLowerCase(s) == [i \in 1..Len(s) |-> ToLowerChar(s[i])]

RECURSIVE TrimStart(_)
TrimStart(s) == IF s # <<>> /\ s[1] \in WhiteSpace THEN TrimStart(Tail(s)) ELSE s

RECURSIVE TrimEnd(_)
TrimEnd(s) == IF s # <<>> /\ s[Len(s)] \in WhiteSpace
              THEN TrimEnd(SubSeq(s, 1, Len(s) - 1)) ELSE s

\* String.prototype.trim
Trim(s) == TrimEnd(TrimStart(s))

\* String.prototype.includes
Includes(s, sub) ==
    \E i \in 0..(Len(s) - Len(sub)) : SubSeq(s, i + 1, i + Len(sub)) = sub

Digits == <<"0", "1", "2", "3", "4", "5", "6", "7", "8", "9">>

RECURSIVE NatToString(_)
NatToString(n) ==
    IF n < 10 THEN <<Digits[n + 1]>>
    ELSE NatToString(n \div 10) \o <<Digits[(n % 10) + 1]>>

StrInfinity == <<"I", "n", "f", "i", "n", "i", "t", "y">>
StrNaN == <<"N", "a", "N">>

\* Number.prototype.toString of Math.round(x) / 100: the shortest decimal
\* that reads back as the number, so at most two fraction digits and no
\* trailing zeros.
NumberToString(r) ==
    IF r.kind = "NaN" THEN StrNaN
    ELSE IF r.kind = "Infinity" THEN StrInfinity
    ELSE IF r.kind = "-Infinity" THEN <<"-">> \o StrInfinity
    ELSE LET a == Abs(r.h)
             whole == NatToString(a \div 100)
             frac == a % 100
             sgn == IF r.h < 0 THEN <<"-">> ELSE <<>>
         IN  IF frac = 0 THEN sgn \o whole
             ELSE IF frac % 10 = 0
                  THEN sgn \o whole \o <<".", Digits[(frac \div 10) + 1]>>
             ELSE sgn \o whole
                  \o <<".", Digits[(frac \div 10) + 1], Digits[(frac % 10) + 1]>>

(***************************************************************************)
(* Bounds and the values requests and rows are drawn from                  *)
(***************************************************************************)
MaxServings == 4
MaxLines == 2

Users == {"u1", "u2"}

\* string | null
Str(s) == [null |-> FALSE, s |-> s]
NullStr == [null |-> TRUE, s |-> <<>>]

\* numeric(10,2) as a count of hundredths, or null
Qty(h) == [null |-> FALSE, h |-> h]
NullQty == [null |-> TRUE, h |-> 0]

\* null in a text column or an embedded row that is absent: a sequence that
\* is no string, its one element not being a character
NullText == <<"null">>
IsNull(s) == s = NullText

APinch == <<"a", " ", "p", "i", "n", "c", "h">>
ToTasteCapital == <<"T", "o", " ", "T", "a", "s", "t", "e">>
TwoLarge == <<"2", " ", "l", "a", "r", "g", "e">>
Flour == <<"f", "l", "o", "u", "r">>
Sugar == <<"s", "u", "g", "a", "r">>
Salt == <<"s", "a", "l", "t">>
Milk == <<"m", "i", "l", "k">>
Cup == <<"c", "u", "p">>
CupPadded == <<" ", "C", "u", "p", " ">>
CupUpper == <<"C", "U", "P">>
Ml == <<"m", "l">>
Tsp == <<"t", "s", "p">>

RecipeId == <<"r", "1">>
OtherRecipeId == <<"r", "2">>
UnknownRecipeId == <<"r", "9">>
BlankId == <<" ">>

StrTaste == <<"t", "a", "s", "t", "e">>
StrPinch == <<"p", "i", "n", "c", "h">>
NotScaledNote ==
    <<"*", "N", "o", "t", " ", "s", "c", "a", "l", "e", "d", " ", "-", " ",
      "a", "d", "j", "u", "s", "t", " ", "t", "o", " ", "t", "a", "s", "t", "e">>

(***************************************************************************)
(* State                                                                   *)
(***************************************************************************)
VARIABLES
    recipes,             \* table recipes: id -> row
    recipe_ingredients,  \* table recipe_ingredients joined with ingredients
    shopping_lists,      \* table shopping_lists: set of rows
    shopping_list_items, \* table shopping_list_items: set of rows
    next_id,             \* the next generated primary key
    request,             \* the request being answered, or NoRequest
    response,            \* the response to it, or NoResponse
    ingredients,         \* table ingredients: set of rows
    calls,               \* the requests in progress: caller -> its position
    buckets,             \* rateLimiter.ts buckets: key -> token bucket
    clock                \* Date.now()

vars == <<recipes, recipe_ingredients, shopping_lists, shopping_list_items,
          next_id, request, response, ingredients, calls, buckets, clock>>

\* The state the one-request-at-a-time handlers neither read nor write
NoCalls == <<>>
NoBuckets == <<>>
RestInit ==
    /\ ingredients = {}
    /\ calls = NoCalls
    /\ buckets = NoBuckets
    /\ clock = 0
RestUnchanged == UNCHANGED <<ingredients, calls, buckets, clock>>

NoRequest == [op |-> "none"]
NoResponse == [status |-> 0, code |-> "", field |-> "", data |-> <<>>]

\* jsonError(code, message, status, field)
jsonError(code, status, field) ==
    [status |-> status, code |-> code, field |-> field, data |-> <<>>]

JsonOk(body) == [status |-> 200, code |-> "", field |-> "", data |-> <<body>>]

RECURSIVE SortByOrderIndex(_)
SortByOrderIndex(rows) ==
    IF rows = {} THEN <<>>
    ELSE LET first == CHOOSE r \in rows :
                          \A o \in rows : r.order_index <= o.order_index
         IN  <<first>> \o SortByOrderIndex(rows \ {first})

\* Row level security of table recipes: the handlers query under the
\* caller's token, so a select returns the caller's own recipes and the
\* public ones.
VisibleRecipes(uid) ==
    {id \in DOMAIN recipes :
        recipes[id].is_public \/ recipes[id].user_id = uid}

(***************************************************************************)
(* POST /api/recipes/:id/scale                                             *)
(***************************************************************************)
\* JavaScript truthiness of body.desired_servings
Truthy(v) ==
    \/ v.t = "string" /\ v.h # 0     \* h is the length of the string
    \/ v.t = "boolean" /\ v.h = 1
    \/ v.t = "number" /\ v.h # 0
    \/ v.t = "Infinity"

TypeofNumber(v) == v.t \in {"number", "Infinity"}

MaxDesiredServings == 1000

\* The upper limit is not checked
DesiredServingsErrorMutant(v) ==
    IF ~Truthy(v) \/ ~TypeofNumber(v) THEN "required"
    ELSE IF v.t = "number" /\ v.h <= 0 THEN "positive"
    ELSE "ok"

\* The three checks of body.desired_servings, in order
DesiredServingsError(v) ==
    IF ~Truthy(v) \/ ~TypeofNumber(v) THEN "required"
    ELSE IF v.t = "number" /\ v.h <= 0 THEN "positive"
    ELSE IF v.t = "Infinity" \/ v.h > 2 * MaxDesiredServings THEN "maximum"
    ELSE "ok"

\* body.desired_servings / recipe.servings; desired_servings is a count of
\* halves, servings an integer, both exactly representable
scalingFactorOf(dh, servings) ==
    IF servings = 0
    THEN IF dh = 0 THEN NumNaN ELSE NumInf(Sign(dh))
    ELSE NumFromRatio(dh, 2 * servings)

\* ri.quantity as a number operand: null converts to +0
QuantityNumber(q) == IF q.null THEN NumZero ELSE NumFromRatio(q.h, 100)

QuantityJson(q) == IF q.null THEN JsonNull ELSE Hundredths(q.h)

StrTruthy(d) == ~d.null /\ d.s # <<>>

\* The quantity is multiplied by the factor already rounded to 2 decimals
roundedQuantityOfMutant(ri, scalingFactor) ==
    LET reported == Round2(scalingFactor)
    IN  Round2(NumMul(QuantityNumber(ri.quantity),
                      IF reported.kind = "num"
                      THEN NumFromRatio(reported.h, 100)
                      ELSE scalingFactor))

roundedQuantityOf(ri, scalingFactor) ==
    Round2(NumMul(QuantityNumber(ri.quantity), scalingFactor))

notesOf(ri) ==
    IF StrTruthy(ri.quantity_display)
       /\ (Includes(ri.quantity_display.s, StrTaste)
           \/ Includes(ri.quantity_display.s, StrPinch))
    THEN Str(NotScaledNote)
    ELSE NullStr

\* The text override is ignored and the scaled number is always formatted
quantityDisplayOfMutant(ri, roundedQuantity) ==
    NumberToString(roundedQuantity)

quantityDisplayOf(ri, roundedQuantity) ==
    IF StrTruthy(ri.quantity_display)
    THEN ri.quantity_display.s
    ELSE NumberToString(roundedQuantity)

ScaleLine(ri, scalingFactor) ==
    LET roundedQuantity == roundedQuantityOf(ri, scalingFactor)
        quantityDisplay == quantityDisplayOf(ri, roundedQuantity)
    IN  [name |-> ri.name,
         original_quantity |-> QuantityJson(ri.quantity),
         scaled_quantity |-> JsonNumber(roundedQuantity),
         quantity_display |-> quantityDisplay,
         unit |-> ri.unit,
         notes |-> notesOf(ri)]

ScaleResponse(req) ==
    IF req.id = <<>> \/ Trim(req.id) = <<>>
    THEN jsonError("VALIDATION_ERROR", 400, "id")
    ELSE IF req.body.kind = "invalid_json"
    THEN jsonError("VALIDATION_ERROR", 400, "")
    ELSE IF req.body.kind = "null"
    \* reading a property of null throws; the outer catch answers
    THEN jsonError("INTERNAL_ERROR", 500, "")
    ELSE IF DesiredServingsError(req.body.desired_servings) # "ok"
    THEN jsonError("VALIDATION_ERROR", 400, "desired_servings")
    ELSE LET authenticatedUserId ==
                 IF req.auth \in Users THEN req.auth ELSE "null"
         IN
         IF req.dbError = "recipes"
            \/ req.id \notin VisibleRecipes(authenticatedUserId)
         THEN jsonError("NOT_FOUND", 404, "")
         ELSE LET recipe == recipes[req.id] IN
         IF ~recipe.is_public /\ recipe.user_id # authenticatedUserId
         THEN jsonError("AUTHORIZATION_ERROR", 403, "")
         ELSE IF req.dbError = "recipe_ingredients"
         THEN jsonError("INTERNAL_ERROR", 500, "")
         ELSE LET recipeIngredients ==
                      SortByOrderIndex({ri \in recipe_ingredients :
                                            ri.recipe_id = req.id})
                  dh == req.body.desired_servings.h
                  scalingFactor == scalingFactorOf(dh, recipe.servings)
              IN  JsonOk([original_servings |-> recipe.servings,
                          desired_servings |-> dh,
                          scaling_factor |-> JsonNumber(Round2(scalingFactor)),
                          scaled_ingredients |->
                              [i \in 1..Len(recipeIngredients) |->
                                  ScaleLine(recipeIngredients[i],
                                            scalingFactor)]])

\* The scaled quantities are written back to the ingredient lines
ScaleMutant(req) ==
    /\ response = NoResponse
    /\ request' = req
    /\ response' = ScaleResponse(req)
    /\ recipe_ingredients' =
           IF response'.status = 200
           THEN {[ri EXCEPT !.quantity =
                      LET r == roundedQuantityOf(
                                   ri, scalingFactorOf(
                                           req.body.desired_servings.h,
                                           recipes[req.id].servings))
                      IN  IF r.kind = "num" THEN Qty(r.h) ELSE NullQty] :
                    ri \in recipe_ingredients}
           ELSE recipe_ingredients
    /\ UNCHANGED <<recipes, shopping_lists, shopping_list_items, next_id>>
    /\ RestUnchanged

Scale(req) ==
    /\ response = NoResponse
    /\ request' = req
    /\ response' = ScaleResponse(req)
    /\ UNCHANGED <<recipes, recipe_ingredients, shopping_lists,
                   shopping_list_items, next_id>>
    /\ RestUnchanged

\* The response is sent and the next request can be taken
Deliver ==
    /\ response # NoResponse
    /\ request' = NoRequest
    /\ response' = NoResponse
    /\ UNCHANGED <<recipes, recipe_ingredients, shopping_lists,
                   shopping_list_items, next_id>>
    /\ RestUnchanged

(***************************************************************************)
(* POST /api/shopping-lists/generate                                       *)
(***************************************************************************)
MaxRecipeIds == 50

\* name.toLowerCase().trim()
normalizeIngredientName(name) == Trim(ToLowerCase(name))

KeySeparator == <<":", ":">>

\* The unit is left out of the key
GroupingKeyMutant(ri) == normalizeIngredientName(ri.name)

\* `${normalizedName}::${ri.unit.toLowerCase()}`
GroupingKey(ri) ==
    normalizeIngredientName(ri.name) \o KeySeparator \o ToLowerCase(ri.unit)

\* A row whose key is already present is dropped instead of added
RECURSIVE CombineIngredientsFirstOnlyMutant(_, _)
CombineIngredientsFirstOnlyMutant(rows, combined) ==
    IF rows = <<>> THEN combined
    ELSE LET ri == rows[1]
             key == GroupingKey(ri)
         IN  IF \E j \in 1..Len(combined) : combined[j].key = key
             THEN CombineIngredientsFirstOnlyMutant(Tail(rows), combined)
             ELSE CombineIngredientsFirstOnlyMutant(
                      Tail(rows),
                      Append(combined,
                             [key |-> key, name |-> ri.name,
                              quantity |-> QuantityNumber(ri.quantity),
                              unit |-> ri.unit,
                              recipe_ids |-> {ri.recipe_id}]))

\* A row whose key is already present replaces the quantity instead of
\* being added to it
RECURSIVE CombineIngredientsLastWinsMutant(_, _)
CombineIngredientsLastWinsMutant(rows, combined) ==
    IF rows = <<>> THEN combined
    ELSE LET ri == rows[1]
             key == GroupingKey(ri)
             quantity == QuantityNumber(ri.quantity)
         IN  IF \E j \in 1..Len(combined) : combined[j].key = key
             THEN LET j == CHOOSE j \in 1..Len(combined) :
                               combined[j].key = key
                  IN  CombineIngredientsLastWinsMutant(
                          Tail(rows),
                          [combined EXCEPT ![j].quantity = quantity])
             ELSE CombineIngredientsLastWinsMutant(
                      Tail(rows),
                      Append(combined,
                             [key |-> key, name |-> ri.name,
                              quantity |-> quantity, unit |-> ri.unit,
                              recipe_ids |-> {ri.recipe_id}]))

\* The forEach over the fetched rows: combinedIngredients as the sequence of
\* its entries in insertion order
RECURSIVE CombineIngredients(_, _)
CombineIngredients(rows, combined) ==
    IF rows = <<>> THEN combined
    ELSE LET ri == rows[1]
             key == GroupingKey(ri)
             quantity == QuantityNumber(ri.quantity)
         IN  IF \E j \in 1..Len(combined) : combined[j].key = key
             THEN LET j == CHOOSE j \in 1..Len(combined) :
                               combined[j].key = key
                  IN  CombineIngredients(
                          Tail(rows),
                          [combined EXCEPT
                              ![j].quantity = NumAdd(@, quantity),
                              ![j].recipe_ids = @ \cup {ri.recipe_id}])
             ELSE CombineIngredients(
                      Tail(rows),
                      Append(combined,
                             [key |-> key, name |-> ri.name,
                              quantity |-> quantity, unit |-> ri.unit,
                              recipe_ids |-> {ri.recipe_id}]))

\* itemsToInsert, with the primary keys the insert gives them
ItemsToInsert(combined, listId, firstId) ==
    [i \in 1..Len(combined) |->
        [id |-> firstId + i - 1,
         shopping_list_id |-> listId,
         source_recipe_id |-> NullStr,
         name |-> combined[i].name,
         quantity |-> Round2(combined[i].quantity),
         unit |-> combined[i].unit,
         category |-> NullStr,
         is_checked |-> FALSE]]

\* Constraints of table shopping_list_items: quantity > 0 and a name that
\* is not blank
ItemAccepted(item) ==
    /\ item.quantity.kind = "num"
    /\ item.quantity.h > 0
    /\ Trim(item.name) # <<>>

Range(seq) == {seq[i] : i \in 1..Len(seq)}

\* The ownership check finds nothing
unauthorizedRecipesMutant(found, user) == {}

\* recipes.filter(r => r.user_id !== user.id)
unauthorizedRecipes(found, user) ==
    {id \in found : recipes[id].user_id # user}

\* The delete removes nothing
deleteItemsMutant(listId) == shopping_list_items

\* The table after delete().eq('shopping_list_id', shoppingList.id)
deleteItems(listId) ==
    {it \in shopping_list_items : it.shopping_list_id # listId}

\* ri.ingredients.name and ri.unit.toLowerCase() throw a TypeError when the
\* embedded ingredient, its name or the unit is null
ThrowsTypeError(ri) == IsNull(ri.name) \/ IsNull(ri.unit)

\* The insert is sent for an empty itemsToInsert too
insertErrorMutant(req, itemsToInsert) ==
    \/ req.dbError = "insert"
    \/ \E i \in 1..Len(itemsToInsert) : ~ItemAccepted(itemsToInsert[i])

\* Whether the insert of itemsToInsert is sent and fails
insertError(req, itemsToInsert) ==
    /\ Len(itemsToInsert) > 0
    /\ \/ req.dbError = "insert"
       \/ \E i \in 1..Len(itemsToInsert) : ~ItemAccepted(itemsToInsert[i])

\* What one generate request does: the response and the tables after it.
\* rows is the order in which the select returns the ingredient rows;
\* fetched is recipeIngredients when the handler got as far as grouping,
\* and aggregated says that it did.
GenerateOutcome(req, rows) ==
    LET unchanged(resp) ==
            [response |-> resp, lists |-> shopping_lists,
             items |-> shopping_list_items, next_id |-> next_id,
             fetched |-> <<>>, aggregated |-> FALSE]
    IN
    IF req.auth \notin Users
    THEN unchanged(jsonError("AUTHENTICATION_ERROR", 401, ""))
    ELSE IF req.body.kind = "invalid_json"
    THEN unchanged(jsonError("VALIDATION_ERROR", 400, ""))
    ELSE IF req.body.kind = "null"
    \* reading a property of null throws; the outer catch answers
    THEN unchanged(jsonError("INTERNAL_ERROR", 500, ""))
    ELSE IF ~req.body.is_array \/ Len(req.body.recipe_ids) = 0
    THEN unchanged(jsonError("VALIDATION_ERROR", 400, "recipe_ids"))
    ELSE IF Len(req.body.recipe_ids) > MaxRecipeIds
    THEN unchanged(jsonError("VALIDATION_ERROR", 400, "recipe_ids"))
    ELSE IF req.body.replace_existing \notin {"true", "false"}
    THEN unchanged(jsonError("VALIDATION_ERROR", 400, "replace_existing"))
    ELSE IF req.dbError = "recipes"
    THEN unchanged(jsonError("INTERNAL_ERROR", 500, ""))
    ELSE
    LET user == req.auth
        found == VisibleRecipes(user) \cap Range(req.body.recipe_ids)
    IN
    IF Cardinality(found) # Len(req.body.recipe_ids)
    THEN unchanged(jsonError("NOT_FOUND", 404, ""))
    ELSE IF unauthorizedRecipes(found, user) # {}
    THEN unchanged(jsonError("AUTHORIZATION_ERROR", 403, ""))
    ELSE IF req.dbError = "shopping_lists_select"
    THEN unchanged(jsonError("INTERNAL_ERROR", 500, ""))
    ELSE
    LET existing == {l \in shopping_lists : l.user_id = user}
    IN
    IF existing = {} /\ req.dbError = "shopping_lists_insert"
    THEN unchanged(jsonError("INTERNAL_ERROR", 500, ""))
    ELSE
    LET created == existing = {}
        shoppingList == IF created
                        THEN [id |-> next_id, user_id |-> user]
                        ELSE CHOOSE l \in existing : TRUE
        lists1 == shopping_lists \cup {shoppingList}
        id1 == IF created THEN next_id + 1 ELSE next_id
        failed(resp, items) ==
            [response |-> resp, lists |-> lists1, items |-> items,
             next_id |-> id1, fetched |-> <<>>, aggregated |-> FALSE]
    IN
    IF req.body.replace_existing = "true" /\ req.dbError = "delete"
    THEN failed(jsonError("INTERNAL_ERROR", 500, ""), shopping_list_items)
    ELSE
    LET items1 == IF req.body.replace_existing = "true"
                  THEN deleteItems(shoppingList.id)
                  ELSE shopping_list_items
    IN
    IF req.dbError = "recipe_ingredients"
    THEN failed(jsonError("INTERNAL_ERROR", 500, ""), items1)
    ELSE IF \E i \in 1..Len(rows) : ThrowsTypeError(rows[i])
    \* the forEach throws before anything is inserted; the outer catch answers
    THEN [failed(jsonError("INTERNAL_ERROR", 500, ""), items1)
             EXCEPT !.fetched = rows, !.aggregated = TRUE]
    ELSE
    LET combinedIngredients == CombineIngredients(rows, <<>>)
        itemsToInsert ==
            ItemsToInsert(combinedIngredients, shoppingList.id, id1)
    IN
    IF insertError(req, itemsToInsert)
    THEN [failed(jsonError("INTERNAL_ERROR", 500, ""), items1)
             EXCEPT !.fetched = rows, !.aggregated = TRUE]
    ELSE [response |->
              JsonOk([id |-> shoppingList.id,
                      items_added |-> Len(itemsToInsert),
                      items_updated |-> 0,
                      items |-> itemsToInsert]),
          lists |-> lists1,
          items |-> items1 \cup Range(itemsToInsert),
          next_id |-> id1 + Len(itemsToInsert),
          fetched |-> rows, aggregated |-> TRUE]

\* The rows the select of recipe_ingredients returns for the listed
\* recipes; the query has no order clause
FetchedIngredients(req) ==
    IF req.body.kind = "object" /\ req.body.is_array
    THEN {ri \in recipe_ingredients :
              ri.recipe_id \in Range(req.body.recipe_ids)}
    ELSE {}

Orderings(rows) ==
    {seq \in [1..Cardinality(rows) -> rows] : Range(seq) = rows}

MaxNextId == 3

Generate(req) ==
    /\ response = NoResponse
    /\ next_id <= MaxNextId
    /\ \E rows \in Orderings(FetchedIngredients(req)) :
         \E out \in {GenerateOutcome(req, rows)} :
               /\ request' = [op |-> req.op, auth |-> req.auth,
                               body |-> req.body, dbError |-> req.dbError,
                               fetched |-> out.fetched,
                               aggregated |-> out.aggregated]
               /\ response' = out.response
               /\ shopping_lists' = out.lists
               /\ shopping_list_items' = out.items
               /\ next_id' = out.next_id
    /\ UNCHANGED <<recipes, recipe_ingredients>>
    /\ RestUnchanged

(***************************************************************************)
(* Requests                                                                *)
(***************************************************************************)
MaxDesired == 6

Undefined == [t |-> "undefined", h |-> 0]
JsNull == [t |-> "null", h |-> 0]
JsString(len) == [t |-> "string", h |-> len]
JsNumber(h) == [t |-> "number", h |-> h]
JsInfinity == [t |-> "Infinity", h |-> 0]

\* desired_servings in halves: 0.5, 1 .. MaxDesired, the limit 1000, and
\* values outside the accepted range
DesiredServingsValues ==
    {Undefined, JsNull, JsString(1), JsInfinity}
    \cup {JsNumber(h) : h \in {-2, 0, 1, 2 * MaxDesiredServings,
                                2 * MaxDesiredServings + 1}}
    \cup {JsNumber(2 * d) : d \in 1..MaxDesired}

ScaleBodies ==
    {[kind |-> "invalid_json", desired_servings |-> Undefined],
     [kind |-> "null", desired_servings |-> Undefined]}
    \cup {[kind |-> "object", desired_servings |-> v] :
              v \in DesiredServingsValues}

AuthValues == {"absent", "invalid"} \cup Users

ScaleRequests ==
    [op : {"scale"},
     id : {BlankId, RecipeId, UnknownRecipeId},
     body : ScaleBodies,
     auth : AuthValues,
     dbError : {"none", "recipes", "recipe_ingredients"}]

(***************************************************************************)
(* Stores                                                                  *)
(***************************************************************************)
Line(name, quantity, quantity_display, unit) ==
    [name |-> name, quantity |-> quantity,
     quantity_display |-> quantity_display, unit |-> unit]

\* Rows the tables accept: quantity numeric(10,2) > 0, unit any text,
\* quantity_display any text or null
Catalogue ==
    <<Line(Flour, Qty(200), NullStr, Cup),
      Line(Salt, Qty(100), Str(APinch), Tsp),
      Line(Sugar, Qty(115), NullStr, CupUpper),
      Line(Salt, Qty(50), Str(ToTasteCapital), Tsp),
      Line(Milk, Qty(300), Str(<<>>), Ml),
      Line(Sugar, Qty(3), Str(TwoLarge), CupPadded)>>

\* Rows that break the constraints of the tables
MalformedCatalogue ==
    <<Line(Flour, NullQty, NullStr, Cup),
      Line(Salt, NullQty, Str(APinch), Tsp),
      Line(Sugar, Qty(-115), NullStr, Cup)>>

\* n rows of recipe id taken from the catalogue, starting at position p
LinesFrom(catalogue, id, p, n) ==
    {[recipe_id |-> id, order_index |-> i - 1]
        @@ catalogue[((p + i - 2) % Len(catalogue)) + 1] : i \in 1..n}

StoreInit(servingsValues, catalogue) ==
    /\ \E sv \in servingsValues, pub \in BOOLEAN :
           recipes = (RecipeId :> [servings |-> sv, is_public |-> pub,
                                   user_id |-> "u1"])
    /\ \E p \in 1..Len(catalogue), n \in 0..MaxLines :
           /\ n = 0 => p = 1
           /\ recipe_ingredients = LinesFrom(catalogue, RecipeId, p, n)
    /\ shopping_lists = {}
    /\ shopping_list_items = {}
    /\ next_id = 1
    /\ request = NoRequest
    /\ response = NoResponse
    /\ RestInit

\* recipe_ids: not an array, empty, one recipe, two recipes, one recipe
\* twice, an unknown recipe, more than MaxRecipeIds ids
RecipeIdsValues ==
    {[is_array |-> FALSE, recipe_ids |-> <<>>],
     [is_array |-> TRUE, recipe_ids |-> <<>>],
     [is_array |-> TRUE, recipe_ids |-> <<RecipeId>>],
     [is_array |-> TRUE, recipe_ids |-> <<RecipeId, OtherRecipeId>>],
     [is_array |-> TRUE, recipe_ids |-> <<RecipeId, RecipeId>>],
     [is_array |-> TRUE, recipe_ids |-> <<UnknownRecipeId>>],
     [is_array |-> TRUE,
      recipe_ids |-> [i \in 1..(MaxRecipeIds + 1) |-> RecipeId]]}

GenerateBodies ==
    {[kind |-> k, is_array |-> FALSE, recipe_ids |-> <<>>,
      replace_existing |-> "missing"] : k \in {"invalid_json", "null"}}
    \cup {[kind |-> "object", is_array |-> r.is_array,
           recipe_ids |-> r.recipe_ids, replace_existing |-> b] :
              r \in RecipeIdsValues, b \in {"true", "false", "missing"}}

\* A failure of the database is drawn only for requests that reach the
\* database: an authenticated caller and a body that passes validation
GenerateRequests ==
    {r \in [op : {"generate"},
            auth : AuthValues,
            body : GenerateBodies,
            dbError : {"none", "recipes", "shopping_lists_select",
                       "shopping_lists_insert", "delete",
                       "recipe_ingredients", "insert"}] :
        r.dbError # "none" =>
            /\ r.auth \in Users
            /\ r.body.kind = "object"
            /\ r.body.is_array
            /\ Len(r.body.recipe_ids) \in 1..MaxRecipeIds
            /\ r.body.replace_existing \in {"true", "false"}}

\* Rows for aggregation: the same ingredient with units that differ in
\* case and padding, another ingredient in two units, and a line with a
\* text quantity
GenerateCatalogue ==
    <<Line(Flour, Qty(200), NullStr, Cup),
      Line(Flour, Qty(100), NullStr, CupUpper),
      Line(Milk, Qty(20000), NullStr, Ml),
      Line(Milk, Qty(200), NullStr, Cup),
      Line(Flour, Qty(50), NullStr, CupPadded),
      Line(Flour, Qty(115), Str(TwoLarge), Cup)>>

\* Rows with a column the handler reads missing: a null unit, an embedded
\* ingredient without a name, an empty unit (which the table accepts)
MalformedGenerateCatalogue ==
    <<Line(Flour, Qty(200), NullStr, NullText),
      Line(NullText, Qty(100), NullStr, Cup),
      Line(Flour, Qty(50), NullStr, <<>>),
      Line(Milk, Qty(200), NullStr, Cup)>>

\* Two recipes: the first owned by u1, the second by u1 or by u2 (private
\* or public), with one line
GenerateStoreInit(catalogue) ==
    /\ \E owner \in Users, pub \in BOOLEAN :
           /\ owner = "u1" => ~pub
           /\ recipes = (RecipeId :> [servings |-> 4, is_public |-> FALSE,
                                      user_id |-> "u1"])
                        @@ (OtherRecipeId :> [servings |-> 2,
                                              is_public |-> pub,
                                              user_id |-> owner])
    /\ \E p \in 1..Len(catalogue), n \in 0..MaxLines :
           /\ n = 0 => p = 1
           /\ recipe_ingredients =
                  LinesFrom(catalogue, RecipeId, p, n)
                  \cup LinesFrom(GenerateCatalogue, OtherRecipeId, 1, 1)
    /\ shopping_lists = {}
    /\ shopping_list_items = {}
    /\ next_id = 1
    /\ request = NoRequest
    /\ response = NoResponse
    /\ RestInit

InitGenerate == GenerateStoreInit(GenerateCatalogue)

InitGenerateUpstream == GenerateStoreInit(MalformedGenerateCatalogue)

NextGenerate ==
    \/ \E req \in GenerateRequests : Generate(req)
    \/ Deliver

SpecGenerate == InitGenerate /\ [][NextGenerate]_vars

SpecGenerateUpstream == InitGenerateUpstream /\ [][NextGenerate]_vars

InitScale == StoreInit(1..MaxServings, Catalogue)

InitScaleUpstream ==
    StoreInit((-1)..MaxServings, Catalogue \o MalformedCatalogue)

NextScale ==
    \/ \E req \in ScaleRequests : Scale(req)
    \/ Deliver

SpecScale == InitScale /\ [][NextScale]_vars

SpecScaleUpstream == InitScaleUpstream /\ [][NextScale]_vars

\* The scale requests against a store that holds a shopping list with items
InitScaleStored ==
    /\ \E sv \in 1..MaxServings, pub \in BOOLEAN :
           recipes = (RecipeId :> [servings |-> sv, is_public |-> pub,
                                   user_id |-> "u1"])
    /\ \E p \in 1..Len(Catalogue) :
           recipe_ingredients = LinesFrom(Catalogue, RecipeId, p, MaxLines)
    /\ shopping_lists = {[id |-> 1, user_id |-> "u1"]}
    /\ shopping_list_items =
           Range(ItemsToInsert(CombineIngredients(
                     SortByOrderIndex(recipe_ingredients), <<>>), 1, 2))
    /\ next_id = 2 + Cardinality(shopping_list_items)
    /\ request = NoRequest
    /\ response = NoResponse
    /\ RestInit

SpecScaleStored == InitScaleStored /\ [][NextScale]_vars

(***************************************************************************)
(* Properties of the scale operation                                       *)
(***************************************************************************)
ScaleOk == request.op = "scale" /\ response.status = 200

\* The rows the answered scale request read, in the order it read them
\* (a scale request changes no table)
ScaledRows ==
    SortByOrderIndex({ri \in recipe_ingredients : ri.recipe_id = request.id})

ScaledRecipe == response.data[1]

DesiredHalves == request.body.desired_servings.h

OriginalServings == recipes[request.id].servings

\* num / den rounded to the nearest integer, a tie away from zero (den > 0)
RoundHalfAway(num, den) ==
    Sign(num) * ((2 * Abs(num) + den) \div (2 * den))

\* C1: for a recipe with servings > 0 and an accepted desired_servings d,
\* every scaled_quantity is original_quantity * (d / servings) rounded
\* half away from zero to 2 decimals, the product taken with the exact
\* ratio.
C1_ScaledQuantityIsRound2 ==
    (ScaleOk /\ OriginalServings > 0) =>
        \A i \in 1..Len(ScaledRows) :
            ~ScaledRows[i].quantity.null =>
                ScaledRecipe.scaled_ingredients[i].scaled_quantity
                    = Hundredths(RoundHalfAway(
                          ScaledRows[i].quantity.h * DesiredHalves,
                          2 * OriginalServings))

\* C2: scaling to the recipe's own servings reports scaling_factor 1 and
\* leaves every quantity as it was.
C2_ScalingIdentity ==
    (ScaleOk /\ DesiredHalves = 2 * OriginalServings) =>
        /\ ScaledRecipe.scaling_factor = Hundredths(100)
        /\ \A i \in 1..Len(ScaledRows) :
               ScaledRecipe.scaled_ingredients[i].scaled_quantity
                   = ScaledRecipe.scaled_ingredients[i].original_quantity

C2_Witness ==
    /\ ScaleOk
    /\ DesiredHalves = 2 * OriginalServings
    /\ \E i \in 1..Len(ScaledRows) :
           /\ ScaledRows[i].quantity = Qty(115)
           /\ ScaledRecipe.scaled_ingredients[i].scaled_quantity
                  = Hundredths(115)

AcceptedDesiredServings(v) ==
    v.t = "number" /\ 0 < v.h /\ v.h <= 2 * 1000

\* C3: a scale request is answered with scaled ingredients only if
\* desired_servings is a finite number with 0 < desired_servings <= 1000;
\* a request that carries any other desired_servings (missing, not a
\* number, zero, negative, above 1000) is answered with a validation error
\* naming the field desired_servings and no scaled ingredients.
C3_DesiredServingsValidated ==
    request.op = "scale" =>
        /\ response.status = 200 =>
               /\ request.body.kind = "object"
               /\ AcceptedDesiredServings(request.body.desired_servings)
        /\ (/\ Trim(request.id) # <<>>
            /\ request.body.kind = "object"
            /\ ~AcceptedDesiredServings(request.body.desired_servings)) =>
               response = jsonError("VALIDATION_ERROR", 400,
                                    "desired_servings")

C3_Witness ==
    /\ request.op = "scale"
    /\ request.id = RecipeId
    /\ request.body.kind = "object"
    /\ request.body.desired_servings = JsNumber(2 * 1000 + 1)
    /\ request.auth = "u1"
    /\ request.dbError = "none"
    /\ response.code = "VALIDATION_ERROR"
    /\ response.field = "desired_servings"
    /\ response.data = <<>>

\* C4: a line whose quantity_display is present and not empty keeps exactly
\* that text as the result's quantity_display, whatever the accepted
\* desired_servings; for "a pinch" the result carries the note
\* "*Not scaled - adjust to taste".
C4_TextQuantityPassesThrough ==
    ScaleOk =>
        \A i \in 1..Len(ScaledRows) :
            StrTruthy(ScaledRows[i].quantity_display) =>
                /\ ScaledRecipe.scaled_ingredients[i].quantity_display
                       = ScaledRows[i].quantity_display.s
                /\ ScaledRows[i].quantity_display.s = APinch =>
                       ScaledRecipe.scaled_ingredients[i].notes
                           = Str(NotScaledNote)

C4_Witness ==
    /\ ScaleOk
    /\ DesiredHalves # 2 * OriginalServings
    /\ \E i \in 1..Len(ScaledRows) :
           /\ ScaledRows[i].quantity_display = Str(APinch)
           /\ ScaledRecipe.scaled_ingredients[i].quantity_display = APinch
           /\ ScaledRecipe.scaled_ingredients[i].scaled_quantity
                  # ScaledRecipe.scaled_ingredients[i].original_quantity

MentionsTasteOrPinch(d) ==
    /\ ~d.null
    /\ \/ Includes(ToLowerCase(d.s), StrTaste)
       \/ Includes(ToLowerCase(d.s), StrPinch)

\* C5: a result carries the note "*Not scaled - adjust to taste" exactly
\* when the line's quantity_display contains "taste" or "pinch", letter case
\* ignored; otherwise its notes is null.
C5_NoteIffTasteOrPinchAnyCase ==
    ScaleOk =>
        \A i \in 1..Len(ScaledRows) :
            ScaledRecipe.scaled_ingredients[i].notes
                = IF MentionsTasteOrPinch(ScaledRows[i].quantity_display)
                  THEN Str(NotScaledNote)
                  ELSE NullStr

C8_RoundingErrorBound ==
    ScaleOk =>
        \A i \in 1..Len(ScaledRows) :
            LET scaled == ScaledRecipe.scaled_ingredients[i].scaled_quantity
            IN  /\ scaled.kind = "num"
                \* | scaled/100 - (q/100) * (dh/2) / servings | <= 1/200
                /\ Abs(2 * OriginalServings * scaled.h
                        - ScaledRows[i].quantity.h * DesiredHalves)
                       <= OriginalServings

C8_Witness ==
    /\ ScaleOk
    /\ \E i \in 1..Len(ScaledRows) :
           LET scaled == ScaledRecipe.scaled_ingredients[i].scaled_quantity
           IN  /\ scaled.kind = "num"
               \* the exact product is not a whole number of hundredths
               /\ 2 * OriginalServings * scaled.h
                      # ScaledRows[i].quantity.h * DesiredHalves

\* C9: the reported scaling_factor is desired_servings / servings rounded to
\* 2 decimals, and each quantity is multiplied by the ratio itself, not by
\* the reported factor.
C9_ReportedFactorRoundedUnroundedUsed ==
    ScaleOk =>
        /\ ScaledRecipe.scaling_factor.kind = "num"
        \* | factor/100 - (dh/2) / servings | <= 1/200
        /\ Abs(2 * OriginalServings * ScaledRecipe.scaling_factor.h
                - 100 * DesiredHalves) <= OriginalServings
        /\ \A i \in 1..Len(ScaledRows) :
               LET scaled ==
                       ScaledRecipe.scaled_ingredients[i].scaled_quantity
                   q == ScaledRows[i].quantity.h
                   exact == q * DesiredHalves
               IN  \* the result is a rounding of the exact product
                   Abs(2 * OriginalServings * scaled.h - exact)
                       <= OriginalServings

\* quantity 3 scaled by 1/3: factor reported 0.33, result 1, not 0.99
C9_Witness ==
    /\ ScaleOk
    /\ OriginalServings = 3
    /\ DesiredHalves = 2
    /\ ScaledRecipe.scaling_factor = Hundredths(33)
    /\ \E i \in 1..Len(ScaledRows) :
           /\ ScaledRows[i].quantity = Qty(300)
           /\ ScaledRecipe.scaled_ingredients[i].scaled_quantity
                  = Hundredths(100)

(***************************************************************************)
(* Properties of shopping list generation                                  *)
(***************************************************************************)
GenerateOk == request.op = "generate" /\ response.status = 200

GeneratedItems == response.data[1].items

\* lowercase + trim of the name, "::", lowercase + trim of the unit
NormalizedKey(line) ==
    Trim(ToLowerCase(line.name)) \o KeySeparator
        \o Trim(ToLowerCase(line.unit))

Fetched == request.fetched

\* The positions in the rows read of the lines with grouping key k
LinesWithKey(k) == {j \in 1..Len(Fetched) : GroupingKey(Fetched[j]) = k}

Min(S) == CHOOSE a \in S : \A b \in S : a <= b

\* The sum, in hundredths, of the quantities of the rows at positions S
RECURSIVE SumHundredths(_)
SumHundredths(S) ==
    IF S = {} THEN 0
    ELSE LET j == Min(S)
         IN  Fetched[j].quantity.h + SumHundredths(S \ {j})

\* C11: after a successful generate request every grouping key among the
\* lines read has exactly one item; the item's quantity is the sum of the
\* quantities of all lines with that key, to 2 decimals, and its name and
\* unit are those of the first line read with that key.
C11_SumPerKeyFirstSeen ==
    GenerateOk =>
        /\ \A j \in 1..Len(Fetched) :
               \E i \in 1..Len(GeneratedItems) :
                   GroupingKey(GeneratedItems[i]) = GroupingKey(Fetched[j])
        /\ \A i, j \in 1..Len(GeneratedItems) :
               GroupingKey(GeneratedItems[i]) = GroupingKey(GeneratedItems[j])
                   => i = j
        /\ \A i \in 1..Len(GeneratedItems) :
               LET lines == LinesWithKey(GroupingKey(GeneratedItems[i]))
               IN  /\ lines # {}
                   /\ GeneratedItems[i].quantity
                          = Hundredths(SumHundredths(lines))
                   /\ GeneratedItems[i].name = Fetched[Min(lines)].name
                   /\ GeneratedItems[i].unit = Fetched[Min(lines)].unit

\* 2 cup flour + 1 CUP flour read in this order: one item flour / cup / 3
C11_Witness ==
    /\ GenerateOk
    /\ Len(Fetched) = 2
    /\ Fetched[1].quantity = Qty(200) /\ Fetched[1].unit = Cup
    /\ Fetched[2].quantity = Qty(100) /\ Fetched[2].unit = CupUpper
    /\ Len(GeneratedItems) = 1
    /\ GeneratedItems[1].name = Flour
    /\ GeneratedItems[1].unit = Cup
    /\ GeneratedItems[1].quantity = Hundredths(300)

NormalizedName(line) == Trim(ToLowerCase(line.name))
NormalizedUnit(line) == Trim(ToLowerCase(line.unit))

\* C12: two lines read with the same ingredient name and different units
\* are in two different items of the result, whatever the lines and their
\* order.
C12_DifferentUnitsNeverMerged ==
    GenerateOk =>
        \A a, b \in Range(Fetched) :
            (/\ NormalizedName(a) = NormalizedName(b)
             /\ NormalizedUnit(a) # NormalizedUnit(b)) =>
                \E i, j \in 1..Len(GeneratedItems) :
                    /\ i # j
                    /\ NormalizedKey(GeneratedItems[i]) = NormalizedKey(a)
                    /\ NormalizedKey(GeneratedItems[j]) = NormalizedKey(b)

\* milk / ml and milk / cup give two items
C12_Witness ==
    /\ GenerateOk
    /\ Len(GeneratedItems) = 2
    /\ \E i, j \in 1..2 :
           /\ GeneratedItems[i].name = Milk /\ GeneratedItems[i].unit = Ml
           /\ GeneratedItems[i].quantity = Hundredths(20000)
           /\ GeneratedItems[j].name = Milk /\ GeneratedItems[j].unit = Cup
           /\ GeneratedItems[j].quantity = Hundredths(200)

\* The grouping keys of a result with the quantity of each
KeyedQuantities(items) ==
    {<<GroupingKey(items[i]), items[i].quantity>> : i \in 1..Len(items)}

\* C13: the keys and the quantity of each key in the result are those the
\* aggregation gives for every other order of the same lines.
C13_OrderIndependent ==
    GenerateOk =>
        \A rows \in Orderings(Range(Fetched)) :
            KeyedQuantities(ItemsToInsert(CombineIngredients(rows, <<>>),
                                          0, 0))
                = KeyedQuantities(GeneratedItems)

\* two lines of one key read against their order in the recipe
C13_Witness ==
    /\ GenerateOk
    /\ Len(Fetched) >= 2
    /\ GroupingKey(Fetched[1]) = GroupingKey(Fetched[2])
    /\ Fetched[1].quantity # Fetched[2].quantity
    /\ Fetched[1].recipe_id = Fetched[2].recipe_id
    /\ Fetched[1].order_index > Fetched[2].order_index

ItemsWithKey(k) ==
    {i \in 1..Len(GeneratedItems) : GroupingKey(GeneratedItems[i]) = k}

GenerateStep ==
    /\ response = NoResponse
    /\ response' # NoResponse
    /\ request'.op = "generate"

MissingNameOrUnit(ri) ==
    \/ IsNull(ri.name) \/ Trim(ri.name) = <<>>
    \/ IsNull(ri.unit) \/ Trim(ri.unit) = <<>>

\* C15: a generate request that reads a line without an ingredient name or
\* without a unit is answered with a validation error and no items, and
\* inserts no item.
C15_MalformedLineIsValidationError ==
    [][(/\ GenerateStep
        /\ request'.aggregated
        /\ \E j \in 1..Len(request'.fetched) :
               MissingNameOrUnit(request'.fetched[j])) =>
           /\ response'.code = "VALIDATION_ERROR"
           /\ response'.data = <<>>
           /\ shopping_list_items' \subseteq shopping_list_items]_vars

WellFormedScale ==
    /\ request.op = "scale"
    /\ request.id \in DOMAIN recipes
    /\ request.body.kind = "object"
    /\ AcceptedDesiredServings(request.body.desired_servings)
    /\ request.dbError = "none"

\* C17: a scale request is answered with scaled ingredients only if the
\* recipe is public or the caller is its owner; for a private recipe and
\* any other caller the answer is an authorization error without data.
C17_ScaleOnlyPublicOrOwner ==
    /\ ScaleOk =>
           \/ recipes[request.id].is_public
           \/ recipes[request.id].user_id = request.auth
    /\ (/\ WellFormedScale
        /\ ~recipes[request.id].is_public
        /\ recipes[request.id].user_id # request.auth) =>
           /\ response.code = "AUTHORIZATION_ERROR"
           /\ response.data = <<>>

\* recipe_ids holds 1 to 50 ids of recipes that exist and belong to the
\* caller
OwnedRecipeIds(req) ==
    /\ req.body.kind = "object"
    /\ req.body.is_array
    /\ Len(req.body.recipe_ids) \in 1..50
    /\ \A id \in Range(req.body.recipe_ids) :
           id \in DOMAIN recipes /\ recipes[id].user_id = req.auth

\* C18: a generate request changes the shopping list items only when
\* recipe_ids holds 1 to 50 ids and every listed recipe exists and belongs
\* to the caller; every other request is answered with an error and leaves
\* the items as they were.
C18_PersistsOnlyOwnedRecipes ==
    [][(GenerateStep /\ ~OwnedRecipeIds(request')) =>
           /\ response'.status # 200
           /\ response'.data = <<>>
           /\ shopping_list_items' = shopping_list_items]_vars

\* a request that lists another user's public recipe is refused and the
\* items of an earlier request are still there
C18_Witness ==
    /\ request.op = "generate"
    /\ request.auth = "u1"
    /\ request.body.recipe_ids = <<RecipeId, OtherRecipeId>>
    /\ recipes[OtherRecipeId].user_id = "u2"
    /\ recipes[OtherRecipeId].is_public
    /\ request.body.replace_existing = "true"
    /\ response.code = "AUTHORIZATION_ERROR"
    /\ shopping_list_items # {}

\* name, quantity and unit of the items of a result
ItemContents(items) ==
    [i \in 1..Len(items) |->
        <<items[i].name, items[i].quantity, items[i].unit>>]

\* C19: after a successful generate request with replace_existing = true
\* the caller's list holds exactly the aggregated items of the request;
\* with replace_existing = false every item there was is still there
\* unchanged and the aggregated items are new items; items_added is the
\* number of items inserted.
C19_ReplaceOrAppend ==
    [][(GenerateStep /\ response'.status = 200) =>
           LET result == response'.data[1]
               inserted == Range(result.items)
           IN  /\ ItemContents(result.items)
                      = ItemContents(ItemsToInsert(
                            CombineIngredients(request'.fetched, <<>>),
                            result.id, 0))
               /\ result.items_added = Cardinality(inserted)
               /\ [id |-> result.id, user_id |-> request'.auth]
                      \in shopping_lists'
               /\ inserted \cap shopping_list_items = {}
               /\ shopping_list_items' \ shopping_list_items = inserted
               /\ request'.body.replace_existing = "true" =>
                      {it \in shopping_list_items' :
                           it.shopping_list_id = result.id} = inserted
               /\ request'.body.replace_existing = "false" =>
                      shopping_list_items \subseteq shopping_list_items'
               /\ \A it \in shopping_list_items :
                      it.shopping_list_id # result.id =>
                          it \in shopping_list_items']_vars

\* a replacing request after an earlier one: the earlier items are gone
C19_Witness ==
    /\ GenerateOk
    /\ request.body.replace_existing = "true"
    /\ response.data[1].items_added > 0
    /\ next_id > 2 + response.data[1].items_added
    /\ {it \in shopping_list_items :
            it.shopping_list_id = response.data[1].id}
           = Range(GeneratedItems)

\* an appending request after an earlier one: both sets of items are there
C19_AppendWitness ==
    /\ GenerateOk
    /\ request.body.replace_existing = "false"
    /\ response.data[1].items_added > 0
    /\ Cardinality(shopping_list_items) > response.data[1].items_added

\* C20: a scale request, answered with a result or with an error, leaves
\* the recipes, the ingredient lines, the shopping lists and their items as
\* they were.
C20_ScaleChangesNothing ==
    [][(response = NoResponse /\ request'.op = "scale") =>
           UNCHANGED <<recipes, recipe_ingredients, shopping_lists,
                       shopping_list_items>>]_vars

\* a scale request computed quantities other than the stored ones while
\* the store holds lines and shopping list items
C20_Witness ==
    /\ ScaleOk
    /\ shopping_list_items # {}
    /\ \E i \in 1..Len(ScaledRows) :
           /\ ScaledRecipe.scaled_ingredients[i].scaled_quantity.kind = "num"
           /\ ScaledRecipe.scaled_ingredients[i].scaled_quantity
                  # ScaledRecipe.scaled_ingredients[i].original_quantity

(***************************************************************************)
(* POST /api/recipes and PUT /api/recipes/:id                              *)
(***************************************************************************)
MaxRecipes == 1

Pie == <<"P", "i", "e">>
TartPadded == <<" ", "T", "a", "r", "t", " ">>
Bake == <<"B", "a", "k", "e">>
BlankText == <<" ">>
EmptyId == <<>>

\* timestamptz null
NullTime == 0

\* gen_random_uuid() for the n-th recipe
RecipeIdOf(n) == <<"r", Digits[n + 1]>>

JsonStatus(status, body) ==
    [status |-> status, code |-> "", field |-> "", data |-> <<body>>]

\* numeric(10,2) of a JSON number given in thousandths: rounded to
\* hundredths, a tie away from zero
ToNumeric(th) == Sign(th) * ((Abs(th) + 5) \div 10)

\* The constraint is missing
ChkQuantityPositiveMutant(h) == TRUE

\* constraint chk_quantity_positive check (quantity > 0)
ChkQuantityPositive(h) == h > 0

\* resolved.input.quantity ?? 0
QuantityOrZero(v) == IF v.t \in {"undefined", "null"} THEN JsNumber(0) ELSE v

\* One element of recipeIngredientsInsert, the quantity as the column
\* numeric(10,2) takes it (in hundredths)
RecipeIngredientInsert(id, input) ==
    [recipe_id |-> id,
     order_index |-> input.order_index,
     name |-> normalizeIngredientName(input.ingredient_name),
     quantity |-> Qty(ToNumeric(QuantityOrZero(input.quantity).h)),
     quantity_display |-> input.quantity_display,
     unit |-> Trim(input.unit)]

\* The bulk insert into recipe_ingredients is one statement: it fails as a
\* whole when a quantity is no number or a row breaks a constraint
RecipeIngredientsAccepted(inputs) ==
    \A i \in 1..Len(inputs) :
        /\ QuantityOrZero(inputs[i].quantity).t = "number"
        /\ ChkQuantityPositive(
               ToNumeric(QuantityOrZero(inputs[i].quantity).h))
        /\ inputs[i].order_index >= 0

\* validateCreateRecipe, the loop body: the field of the first rule an
\* ingredient breaks, or ""
IngredientErrorField(ing) ==
    IF ing.ingredient_name = <<>> \/ Trim(ing.ingredient_name) = <<>>
    THEN "ingredient_name"
    ELSE IF ing.unit = <<>> \/ Trim(ing.unit) = <<>> THEN "unit"
    ELSE IF ing.order_index < 0 THEN "order_index"
    ELSE IF /\ ~StrTruthy(ing.quantity_display)
            /\ (~TypeofNumber(ing.quantity) \/ ing.quantity.h <= 0)
         THEN "quantity"
    ELSE ""

\* validateCreateRecipe: the field in error, "body" for a body that is no
\* object, or "" for a valid body (servings is the number itself)
validateCreateRecipe(body) ==
    IF body.kind = "null" THEN "body"
    ELSE IF ~StrTruthy(body.title) \/ Trim(body.title.s) = <<>> THEN "title"
    ELSE IF ~StrTruthy(body.instructions) \/ Trim(body.instructions.s) = <<>>
         THEN "instructions"
    ELSE IF ~TypeofNumber(body.servings) \/ body.servings.h <= 0
         THEN "servings"
    ELSE IF ~body.is_array \/ body.ingredients = <<>> THEN "ingredients"
    ELSE IF \E i \in 1..Len(body.ingredients) :
                IngredientErrorField(body.ingredients[i]) # ""
         THEN IngredientErrorField(body.ingredients[
                  Min({i \in 1..Len(body.ingredients) :
                          IngredientErrorField(body.ingredients[i]) # ""})])
    ELSE ""

\* The tables and the response POST /api/recipes leaves. The recipe is
\* inserted first; a failure of a later step deletes it again.
CreateOutcome(req) ==
    LET body == req.body
        id == RecipeIdOf(Cardinality(DOMAIN recipes) + 1)
        unchanged(resp) ==
            [response |-> resp, recipes |-> recipes,
             lines |-> recipe_ingredients]
        row == [title |-> Trim(body.title.s), servings |-> body.servings.h,
                is_public |-> FALSE, user_id |-> req.auth,
                published_at |-> NullTime, unpublished_at |-> NullTime]
    IN  IF req.auth \notin Users
        THEN unchanged(jsonError("AUTHENTICATION_ERROR", 401, ""))
        ELSE IF body.kind = "invalid_json"
        THEN unchanged(jsonError("VALIDATION_ERROR", 400, ""))
        ELSE IF validateCreateRecipe(body) # ""
        THEN unchanged(jsonError("VALIDATION_ERROR", 400,
                 IF validateCreateRecipe(body) = "body" THEN ""
                 ELSE validateCreateRecipe(body)))
        ELSE IF req.dbError = "recipes"
        THEN unchanged(jsonError("INTERNAL_ERROR", 500, ""))
        ELSE IF \/ req.dbError \in {"ingredients", "recipe_ingredients",
                                    "profiles"}
                \/ ~RecipeIngredientsAccepted(body.ingredients)
        THEN unchanged(jsonError("INTERNAL_ERROR", 500, ""))
        ELSE [response |-> JsonStatus(201, [id |-> id]),
              recipes |-> (id :> row) @@ recipes,
              lines |-> recipe_ingredients
                  \cup {RecipeIngredientInsert(id, body.ingredients[i]) :
                            i \in 1..Len(body.ingredients)}]

CreateRecipe(req) ==
    /\ response = NoResponse
    /\ Cardinality(DOMAIN recipes) < MaxRecipes
    /\ \E out \in {CreateOutcome(req)} :
           /\ request' = req
           /\ response' = out.response
           /\ recipes' = out.recipes
           /\ recipe_ingredients' = out.lines
    /\ UNCHANGED <<shopping_lists, shopping_list_items, next_id>>
    /\ RestUnchanged

\* PUT, step 4: the field of the first rule the body breaks, or ""
UpdateErrorField(body) ==
    IF ~body.title.null /\ Trim(body.title.s) = <<>> THEN "title"
    ELSE IF ~body.instructions.null /\ Trim(body.instructions.s) = <<>>
         THEN "instructions"
    ELSE IF /\ body.servings.t # "undefined"
            /\ (~TypeofNumber(body.servings) \/ body.servings.h <= 0)
         THEN "servings"
    ELSE ""

\* recipeUpdate applied to the row
UpdatedRow(row, body) ==
    [row EXCEPT !.title = IF body.title.null THEN @ ELSE Trim(body.title.s),
                !.servings = IF body.servings.t = "undefined" THEN @
                             ELSE body.servings.h]

\* The tables and the response PUT /api/recipes/:id leaves: the recipe row
\* is updated in step 5, the lines are replaced in step 6, and a failure of
\* a later step undoes nothing.
UpdateOutcome(req) ==
    LET body == req.body
        id == req.id
        result(resp, rows, lines) ==
            [response |-> resp, recipes |-> rows, lines |-> lines]
        updated == [recipes EXCEPT ![id] = UpdatedRow(@, body)]
        others == {ri \in recipe_ingredients : ri.recipe_id # id}
    IN  IF id = EmptyId
        THEN result(jsonError("VALIDATION_ERROR", 400, "id"),
                    recipes, recipe_ingredients)
        ELSE IF req.auth \notin Users
        THEN result(jsonError("AUTHENTICATION_ERROR", 401, ""),
                    recipes, recipe_ingredients)
        ELSE IF id \notin VisibleRecipes(req.auth) \/ req.dbError = "select"
        THEN result(jsonError("NOT_FOUND", 404, ""),
                    recipes, recipe_ingredients)
        ELSE IF recipes[id].user_id # req.auth
        THEN result(jsonError("AUTHORIZATION_ERROR", 403, ""),
                    recipes, recipe_ingredients)
        ELSE IF body.kind = "invalid_json"
        THEN result(jsonError("VALIDATION_ERROR", 400, ""),
                    recipes, recipe_ingredients)
        ELSE IF body.kind = "null"
        THEN result(jsonError("INTERNAL_ERROR", 500, ""),
                    recipes, recipe_ingredients)
        ELSE IF UpdateErrorField(body) # ""
        THEN result(jsonError("VALIDATION_ERROR", 400,
                              UpdateErrorField(body)),
                    recipes, recipe_ingredients)
        ELSE IF req.dbError = "recipes"
        THEN result(jsonError("INTERNAL_ERROR", 500, ""),
                    recipes, recipe_ingredients)
        ELSE IF ~body.is_array
        THEN result(JsonStatus(200, [id |-> id]), updated,
                    recipe_ingredients)
        ELSE IF body.ingredients = <<>>
        THEN result(jsonError("VALIDATION_ERROR", 400, "ingredients"),
                    updated, recipe_ingredients)
        ELSE IF req.dbError = "delete"
        THEN result(jsonError("INTERNAL_ERROR", 500, ""), updated,
                    recipe_ingredients)
        ELSE IF \/ req.dbError \in {"ingredients", "recipe_ingredients"}
                \/ ~RecipeIngredientsAccepted(body.ingredients)
        THEN result(jsonError("INTERNAL_ERROR", 500, ""), updated, others)
        ELSE result(JsonStatus(200, [id |-> id]), updated,
                    others \cup
                        {RecipeIngredientInsert(id, body.ingredients[i]) :
                             i \in 1..Len(body.ingredients)})

UpdateRecipe(req) ==
    /\ response = NoResponse
    /\ \E out \in {UpdateOutcome(req)} :
           /\ request' = req
           /\ response' = out.response
           /\ recipes' = out.recipes
           /\ recipe_ingredients' = out.lines
    /\ UNCHANGED <<shopping_lists, shopping_list_items, next_id>>
    /\ RestUnchanged

\* An element of the ingredients array of a request; quantity is a JSON
\* value whose number is given in thousandths
IngredientInput(name, quantity, quantity_display, unit, order_index) ==
    [ingredient_name |-> name, quantity |-> quantity,
     quantity_display |-> quantity_display, unit |-> unit,
     order_index |-> order_index]

FlourLine == IngredientInput(Flour, JsNumber(1500), NullStr, Cup, 0)
PinchLine == IngredientInput(Salt, Undefined, Str(APinch), Tsp, 0)
SubCentLine == IngredientInput(Sugar, JsNumber(4), NullStr, CupUpper, 0)
ZeroLine == IngredientInput(Milk, JsNumber(0), NullStr, Ml, 0)
NegativeLine == IngredientInput(Milk, JsNumber(-1000), NullStr, Ml, 0)
EmptyDisplayLine ==
    IngredientInput(Sugar, JsNumber(2000), Str(<<>>), CupPadded, 1)
PinchCentLine == IngredientInput(Salt, JsNumber(5), Str(APinch), Tsp, 1)
TextQuantityLine == IngredientInput(Flour, JsString(1), NullStr, Cup, 0)
BlankNameLine == IngredientInput(BlankText, JsNumber(1000), NullStr, Cup, 0)

\* ingredients: no array, an empty array, each line alone, two lines
IngredientsValues ==
    {[is_array |-> FALSE, ingredients |-> <<>>],
     [is_array |-> TRUE, ingredients |-> <<>>]}
    \cup {[is_array |-> TRUE, ingredients |-> <<l>>] :
              l \in {FlourLine, PinchLine, SubCentLine, ZeroLine,
                     NegativeLine, EmptyDisplayLine, PinchCentLine,
                     TextQuantityLine, BlankNameLine}}
    \cup {[is_array |-> TRUE, ingredients |-> <<FlourLine, l>>] :
              l \in {EmptyDisplayLine, PinchCentLine}}

RecipeBody(title, instructions, servings, ings) ==
    [kind |-> "object", title |-> title, instructions |-> instructions,
     servings |-> servings, is_array |-> ings.is_array,
     ingredients |-> ings.ingredients]

OneFlour == [is_array |-> TRUE, ingredients |-> <<FlourLine>>]

\* A valid body with every value of ingredients, and bodies with one
\* other field missing or out of range
CreateBodies ==
    {[kind |-> k, title |-> NullStr, instructions |-> NullStr,
      servings |-> Undefined, is_array |-> FALSE, ingredients |-> <<>>] :
          k \in {"invalid_json", "null"}}
    \cup {RecipeBody(Str(Pie), Str(Bake), JsNumber(2), i) :
              i \in IngredientsValues}
    \cup {RecipeBody(t, Str(Bake), JsNumber(2), OneFlour) :
              t \in {NullStr, Str(BlankText)}}
    \cup {RecipeBody(Str(Pie), n, JsNumber(2), OneFlour) :
              n \in {NullStr, Str(BlankText)}}
    \cup {RecipeBody(Str(Pie), Str(Bake), s, OneFlour) :
              s \in {Undefined, JsString(1), JsNumber(0)}}

\* Bodies that change the title, the servings, the lines, or several of
\* them, and bodies with a field out of range
UpdateBodies ==
    {[kind |-> k, title |-> NullStr, instructions |-> NullStr,
      servings |-> Undefined, is_array |-> FALSE, ingredients |-> <<>>] :
          k \in {"invalid_json", "null"}}
    \cup {RecipeBody(t, NullStr, s, i) :
              t \in {NullStr, Str(TartPadded)},
              s \in {Undefined, JsNumber(4)},
              i \in IngredientsValues}
    \cup {RecipeBody(Str(BlankText), NullStr, JsNumber(4), OneFlour),
          RecipeBody(Str(TartPadded), Str(BlankText), JsNumber(4), OneFlour),
          RecipeBody(Str(TartPadded), NullStr, JsNumber(0), OneFlour),
          RecipeBody(Str(TartPadded), NullStr, JsString(1), OneFlour)}

\* A failure of the database is drawn only for a valid body of an
\* authenticated caller
CreateRequests ==
    {r \in [op : {"create"}, auth : AuthValues, body : CreateBodies,
            dbError : {"none", "recipes", "ingredients",
                       "recipe_ingredients", "profiles"}] :
        /\ r.auth \notin Users =>
               r.body = RecipeBody(Str(Pie), Str(Bake), JsNumber(2), OneFlour)
        /\ r.dbError # "none" =>
               /\ r.auth \in Users
               /\ r.body = RecipeBody(Str(Pie), Str(Bake), JsNumber(2),
                                      OneFlour)}

UpdateRequests ==
    {r \in [op : {"update"}, id : {EmptyId, RecipeId, UnknownRecipeId},
            auth : AuthValues, body : UpdateBodies,
            dbError : {"none", "select", "recipes", "delete",
                       "ingredients", "recipe_ingredients"}] :
        /\ (r.auth \notin Users \/ r.id # RecipeId) =>
               r.body = RecipeBody(Str(TartPadded), NullStr, JsNumber(4),
                                   OneFlour)
        /\ r.dbError # "none" =>
               /\ r.auth \in Users
               /\ r.id = RecipeId
               /\ r.body = RecipeBody(Str(TartPadded), NullStr, JsNumber(4),
                                      OneFlour)}

\* No recipe is stored yet
InitRecipes ==
    /\ recipes = <<>>
    /\ recipe_ingredients = {}
    /\ shopping_lists = {}
    /\ shopping_list_items = {}
    /\ next_id = 1
    /\ request = NoRequest
    /\ response = NoResponse
    /\ RestInit

NextRecipes ==
    \/ \E req \in CreateRequests : CreateRecipe(req)
    \/ \E req \in UpdateRequests : UpdateRecipe(req)
    \/ Deliver

SpecRecipes == InitRecipes /\ [][NextRecipes]_vars

(***************************************************************************)
(* GET /api/recipes/:id, PATCH /api/recipes/:id/visibility and             *)
(* GET /api/recipes/public                                                 *)
(***************************************************************************)
MaxClock == 2

\* Row level security of table profiles: the caller's own profile and the
\* profiles of the users with a public recipe (the username of a user is
\* the user's name in the model)
VisibleProfiles(uid) ==
    {u \in Users :
        u = uid \/ \E id \in DOMAIN recipes :
                       recipes[id].user_id = u /\ recipes[id].is_public}

\* The lines of a recipe as the select under row level security gives them
LinesOf(id) == SortByOrderIndex({ri \in recipe_ingredients : ri.recipe_id = id})

\* GET /api/recipes/:id
GetResponse(req) ==
    IF req.id = EmptyId THEN jsonError("VALIDATION_ERROR", 400, "id")
    ELSE IF req.id \notin VisibleRecipes(req.auth) \/ req.dbError = "recipes"
    THEN jsonError("NOT_FOUND", 404, "")
    ELSE IF ~recipes[req.id].is_public /\ req.auth \notin Users
    THEN jsonError("AUTHENTICATION_ERROR", 401, "")
    ELSE IF ~recipes[req.id].is_public /\ recipes[req.id].user_id # req.auth
    THEN jsonError("AUTHORIZATION_ERROR", 403, "")
    ELSE IF \/ recipes[req.id].user_id \notin VisibleProfiles(req.auth)
            \/ req.dbError = "profiles"
    THEN jsonError("INTERNAL_ERROR", 500, "")
    ELSE IF req.dbError = "recipe_ingredients"
    THEN jsonError("INTERNAL_ERROR", 500, "")
    ELSE IF req.dbError = "ingredients" /\ LinesOf(req.id) # <<>>
    THEN jsonError("INTERNAL_ERROR", 500, "")
    ELSE JsonOk([id |-> req.id, title |-> recipes[req.id].title,
                 ingredients |-> LinesOf(req.id)])

GetRecipe(req) ==
    /\ response = NoResponse
    /\ request' = req
    /\ response' = GetResponse(req)
    /\ UNCHANGED <<recipes, recipe_ingredients, shopping_lists,
                   shopping_list_items, next_id>>
    /\ RestUnchanged

\* updateData of the handler and trigger on_recipe_publish_status_change,
\* which set the same columns to the time of the update
handle_recipe_publish(old, new, now) ==
    [new EXCEPT
        !.published_at = IF new.is_public /\ ~old.is_public THEN now ELSE @,
        !.unpublished_at = IF ~new.is_public /\ old.is_public
                           THEN now ELSE @]

\* PATCH /api/recipes/:id/visibility: the response and the recipes
VisibilityOutcome(req) ==
    LET unchanged(resp) == [response |-> resp, recipes |-> recipes]
        old == recipes[req.id]
        new == handle_recipe_publish(
                   old, [old EXCEPT !.is_public = (req.body.is_public = "true")],
                   clock)
    IN  IF req.id = EmptyId
        THEN unchanged(jsonError("VALIDATION_ERROR", 400, "id"))
        ELSE IF req.auth \notin Users
        THEN unchanged(jsonError("AUTHENTICATION_ERROR", 401, ""))
        ELSE IF req.body.kind = "invalid_json"
        THEN unchanged(jsonError("VALIDATION_ERROR", 400, ""))
        ELSE IF req.body.kind = "null"
        THEN unchanged(jsonError("INTERNAL_ERROR", 500, ""))
        ELSE IF req.body.is_public \notin {"true", "false"}
        THEN unchanged(jsonError("VALIDATION_ERROR", 400, "is_public"))
        ELSE IF \/ req.id \notin VisibleRecipes(req.auth)
                \/ req.dbError = "select"
        THEN unchanged(jsonError("NOT_FOUND", 404, ""))
        ELSE IF old.user_id # req.auth
        THEN unchanged(jsonError("AUTHORIZATION_ERROR", 403, ""))
        ELSE IF req.dbError = "update"
        THEN unchanged(jsonError("INTERNAL_ERROR", 500, ""))
        ELSE [response |-> JsonOk([id |-> req.id,
                                   is_public |-> new.is_public,
                                   published_at |-> new.published_at,
                                   unpublished_at |-> new.unpublished_at]),
              recipes |-> [recipes EXCEPT ![req.id] = new]]

PatchVisibility(req) ==
    /\ response = NoResponse
    /\ \E out \in {VisibilityOutcome(req)} :
           /\ request' = req
           /\ response' = out.response
           /\ recipes' = out.recipes
    /\ UNCHANGED <<recipe_ingredients, shopping_lists, shopping_list_items,
                   next_id, ingredients, calls, buckets, clock>>

\* Time passes between two requests
Tick ==
    /\ response = NoResponse
    /\ clock < MaxClock
    /\ clock' = clock + 1
    /\ UNCHANGED <<recipes, recipe_ingredients, shopping_lists,
                   shopping_list_items, next_id, request, response,
                   ingredients, calls, buckets>>

\* s like p, case-insensitive: % matches any run of characters, _ matches
\* one character
RECURSIVE Ilike(_, _)
Ilike(s, p) ==
    IF p = <<>> THEN s = <<>>
    ELSE IF p[1] = "%"
         THEN Ilike(s, Tail(p)) \/ (s # <<>> /\ Ilike(Tail(s), p))
    ELSE IF s = <<>> THEN FALSE
    ELSE /\ p[1] = "_" \/ ToLowerChar(p[1]) = ToLowerChar(s[1])
         /\ Ilike(Tail(s), Tail(p))

\* The rows of any visibility
eqIsPublicMutant(rows) == rows

\* .eq('is_public', true)
eqIsPublic(rows) == {id \in rows : recipes[id].is_public}

\* The rows the feed query selects and counts, before order and range
FeedRows(req) ==
    {id \in eqIsPublic(VisibleRecipes(req.auth)) :
        /\ Trim(req.search) # <<>> =>
               Ilike(recipes[id].title, <<"%">> \o Trim(req.search) \o <<"%">>)
        /\ req.author # "" => recipes[id].user_id = req.author}

SortKey(id, sort) ==
    IF sort = "title" THEN recipes[id].title
    ELSE IF sort = "created_at" THEN recipes[id].created_at
    ELSE recipes[id].published_at

\* a sorts before b, or together with it
RECURSIVE TextBefore(_, _)
TextBefore(a, b) ==
    IF a = <<>> THEN TRUE
    ELSE IF b = <<>> THEN FALSE
    ELSE LET ca == CHOOSE j \in 1..Len(LowerCase) :
                       LowerCase[j] = ToLowerChar(a[1])
             cb == CHOOSE j \in 1..Len(LowerCase) :
                       LowerCase[j] = ToLowerChar(b[1])
         IN  ca < cb \/ (ca = cb /\ TextBefore(Tail(a), Tail(b)))

KeyBefore(a, b, sort) ==
    IF sort = "title" THEN TextBefore(a, b) ELSE a <= b

\* .order(sort, { ascending }): the rows in an order the key allows, rows
\* with equal keys in either order
Ordered(rows, sort, order) ==
    {seq \in Orderings(rows) :
        \A i, j \in 1..Len(seq) :
            i < j => IF order = "asc"
                     THEN KeyBefore(SortKey(seq[i], sort),
                                    SortKey(seq[j], sort), sort)
                     ELSE KeyBefore(SortKey(seq[j], sort),
                                    SortKey(seq[i], sort), sort)}

Max2(a, b) == IF a > b THEN a ELSE b
Min2(a, b) == IF a < b THEN a ELSE b

MaxFeedLimit == 100
DefaultFeedLimit == 20

\* .range(from, to) of the ordered rows
RangeOf(seq, from, to) ==
    SubSeq(seq, from + 1, Min2(to + 1, Len(seq)))

\* GET /api/recipes/public, for one order of the rows; page and limit are
\* the parsed numbers, 0 standing for a parameter that is absent, and
\* author is the trimmed parameter, "" when it is absent
FeedResponse(req, seq) ==
    LET page == Max2(1, IF req.page = 0 THEN 1 ELSE req.page)
        limit == Min2(MaxFeedLimit,
                      Max2(1, IF req.limit = 0 THEN DefaultFeedLimit
                              ELSE req.limit))
        from == (page - 1) * limit
        to == from + limit - 1
        total == Len(seq)
    IN  IF req.sort \notin {"published_at", "created_at", "title"}
        THEN jsonError("VALIDATION_ERROR", 400, "sort")
        ELSE IF req.order \notin {"asc", "desc"}
        THEN jsonError("VALIDATION_ERROR", 400, "order")
        ELSE IF /\ req.author # ""
                /\ (req.author \notin VisibleProfiles(req.auth)
                    \/ req.dbError = "profile")
        THEN JsonOk([data |-> <<>>, page |-> page, limit |-> limit,
                     total |-> 0, total_pages |-> 0])
        ELSE IF req.dbError \in {"recipes", "profiles"}
        THEN jsonError("INTERNAL_ERROR", 500, "")
        ELSE JsonOk([data |-> SelectSeq(RangeOf(seq, from, to),
                         LAMBDA id : recipes[id].published_at # NullTime),
                     page |-> page, limit |-> limit, total |-> total,
                     total_pages |-> (total + limit - 1) \div limit])

PublicFeed(req) ==
    /\ response = NoResponse
    /\ \E seq \in Ordered(FeedRows(req),
                          IF req.sort \in {"created_at", "title"}
                          THEN req.sort ELSE "published_at",
                          IF req.order = "asc" THEN "asc" ELSE "desc") :
           /\ request' = req
           /\ response' = FeedResponse(req, seq)
    /\ UNCHANGED <<recipes, recipe_ingredients, shopping_lists,
                   shopping_list_items, next_id>>
    /\ RestUnchanged

Tart == <<"T", "a", "r", "t">>
SearchPie == <<"p", "i", "e">>
SearchWildcard == <<"P", "_", "E">>
SearchNone == <<"z", "z">>

GetRequests ==
    {r \in [op : {"get"},
            id : {EmptyId, RecipeId, OtherRecipeId, UnknownRecipeId},
            auth : AuthValues,
            dbError : {"none", "recipes", "profiles", "recipe_ingredients",
                       "ingredients"}] :
        r.dbError # "none" => r.id = RecipeId /\ r.auth = "u1"}

VisibilityBodies ==
    {[kind |-> "invalid_json", is_public |-> "missing"],
     [kind |-> "null", is_public |-> "missing"]}
    \cup {[kind |-> "object", is_public |-> b] :
              b \in {"true", "false", "missing"}}

VisibilityRequests ==
    {r \in [op : {"visibility"},
            id : {EmptyId, RecipeId, OtherRecipeId, UnknownRecipeId},
            auth : AuthValues,
            body : VisibilityBodies,
            dbError : {"none", "select", "update"}] :
        /\ r.body.kind # "object" => r.id = RecipeId
        /\ r.dbError # "none" =>
               /\ r.id = RecipeId
               /\ r.auth = "u1"
               /\ r.body.is_public = "true"}

\* The filters with the default page, the pages with the default filters,
\* and a sort or an order that is not accepted
FeedRequests ==
    {r \in [op : {"feed"},
            auth : AuthValues,
            page : 0..2,
            limit : {0, 1, 2 * MaxFeedLimit},
            sort : {"published_at", "created_at", "title", "servings"},
            order : {"asc", "desc", "up"},
            search : {<<>>, BlankText, SearchPie, SearchWildcard, SearchNone},
            author : {"", "u1", "u2", "nobody"},
            dbError : {"none", "profile", "recipes", "profiles"}] :
        LET filtered == r.search # <<>> \/ r.author # "" \/ r.auth # "u1"
            paged == r.page # 0 \/ r.limit # 0 \/ r.sort # "published_at"
                     \/ r.order # "desc"
        IN  /\ ~(filtered /\ paged)
            /\ (r.sort = "servings" \/ r.order = "up") =>
                   /\ r.page = 0 /\ r.limit = 0
                   /\ (r.sort = "published_at" \/ r.order = "desc")
            /\ r.dbError = "profile" =>
                   r.author = "u2" /\ r.search = <<>> /\ r.auth = "u1"
            /\ r.dbError \in {"recipes", "profiles"} => ~filtered /\ ~paged}

\* Two recipes with a line each: r1 of u1, private and never published, and
\* r2 of u2, private or published at the time the clock shows
InitVisibility ==
    /\ \E pub \in BOOLEAN :
           recipes =
               (RecipeId :> [title |-> Pie, servings |-> 2,
                             is_public |-> FALSE, user_id |-> "u1",
                             published_at |-> NullTime,
                             unpublished_at |-> NullTime, created_at |-> 1])
               @@ (OtherRecipeId :>
                       [title |-> Tart, servings |-> 4, is_public |-> pub,
                        user_id |-> "u2",
                        published_at |-> IF pub THEN 1 ELSE NullTime,
                        unpublished_at |-> NullTime, created_at |-> 1])
    /\ recipe_ingredients = LinesFrom(Catalogue, RecipeId, 1, 1)
                            \cup LinesFrom(Catalogue, OtherRecipeId, 2, 1)
    /\ shopping_lists = {}
    /\ shopping_list_items = {}
    /\ next_id = 1
    /\ request = NoRequest
    /\ response = NoResponse
    /\ ingredients = {}
    /\ calls = NoCalls
    /\ buckets = NoBuckets
    /\ clock = 1

NextVisibility ==
    \/ \E req \in GetRequests : GetRecipe(req)
    \/ \E req \in VisibilityRequests : PatchVisibility(req)
    \/ \E req \in FeedRequests : PublicFeed(req)
    \/ Tick
    \/ Deliver

SpecVisibility == InitVisibility /\ [][NextVisibility]_vars

(***************************************************************************)
(* Requests that run at the same time.  A caller's request is a sequence   *)
(* of steps, one for each statement it sends to the database; the steps of *)
(* different callers interleave.                                           *)
(***************************************************************************)
MaxCalls == 2

Callers == 1..MaxCalls

IdleCall == [pc |-> "idle"]

\* The request of caller c goes on at position pc with the values in more
Continue(c, req, pc, more) ==
    calls' = [calls EXCEPT ![c] = [pc |-> pc, req |-> req] @@ more]

\* The request of caller c is answered
Answer(c, req, resp) ==
    calls' = [calls EXCEPT ![c] = [pc |-> "done", req |-> req,
                                   response |-> resp]]

\* The response is sent and the caller can send the next request
Return(c) ==
    /\ calls[c].pc = "done"
    /\ calls' = [calls EXCEPT ![c] = IdleCall]
    /\ UNCHANGED <<recipes, recipe_ingredients, shopping_lists,
                   shopping_list_items, next_id, request, response,
                   ingredients, buckets, clock>>

\* .from('shopping_lists').select().eq('user_id', user.id) under row level
\* security
ListsOf(uid) == {l \in shopping_lists : l.user_id = uid}

(***************************************************************************)
(* DELETE /api/shopping-lists/items/checked and                            *)
(* PATCH /api/shopping-lists/items/:id                                     *)
(***************************************************************************)
CheckedItems(listId) ==
    {it \in shopping_list_items :
        it.shopping_list_id = listId /\ it.is_checked}

\* Steps 1 and 2: authentication and the select of the caller's list
ClearStart(c, req) ==
    /\ calls[c] = IdleCall
    /\ IF req.auth \notin Users
       THEN Answer(c, req, jsonError("AUTHENTICATION_ERROR", 401, ""))
       ELSE IF Cardinality(ListsOf(req.auth)) # 1
       THEN Answer(c, req, JsonOk([deleted_count |-> 0]))
       ELSE Continue(c, req, "count",
                     [list |-> (CHOOSE l \in ListsOf(req.auth) : TRUE).id])
    /\ UNCHANGED <<recipes, recipe_ingredients, shopping_lists,
                   shopping_list_items, next_id, request, response,
                   ingredients, buckets, clock>>

\* Step 3: the count of the checked items
ClearCount(c) ==
    /\ calls[c].pc = "count"
    /\ calls[c].req.op = "clear"
    /\ LET req == calls[c].req
           checkedCount == Cardinality(CheckedItems(calls[c].list))
       IN  IF req.dbError = "count"
           THEN Answer(c, req, jsonError("INTERNAL_ERROR", 500, ""))
           ELSE IF checkedCount = 0
           THEN Answer(c, req, JsonOk([deleted_count |-> 0]))
           ELSE Continue(c, req, "delete",
                         [list |-> calls[c].list,
                          itemsToDelete |-> checkedCount])
    /\ UNCHANGED <<recipes, recipe_ingredients, shopping_lists,
                   shopping_list_items, next_id, request, response,
                   ingredients, buckets, clock>>

\* Steps 4 to 6: the delete of the checked items and the response, which
\* reports the count of step 3
ClearDelete(c) ==
    /\ calls[c].pc = "delete"
    /\ calls[c].req.op = "clear"
    /\ LET req == calls[c].req
       IN  IF req.dbError = "delete"
           THEN /\ Answer(c, req, jsonError("INTERNAL_ERROR", 500, ""))
                /\ UNCHANGED shopping_list_items
           ELSE /\ shopping_list_items' =
                       shopping_list_items \ CheckedItems(calls[c].list)
                /\ Answer(c, req,
                          JsonOk([deleted_count |-> calls[c].itemsToDelete]))
    /\ UNCHANGED <<recipes, recipe_ingredients, shopping_lists, next_id,
                   request, response, ingredients, buckets, clock>>

MaxItemQuantity == 999999

\* PATCH, step 3: the field in error, "body" when no field is given, or ""
PatchErrorField(body) ==
    IF body.quantity.t = "undefined" /\ body.is_checked = "missing"
    THEN "body"
    ELSE IF /\ body.quantity.t # "undefined"
            /\ (\/ ~TypeofNumber(body.quantity)
                \/ body.quantity.h <= 0
                \/ body.quantity.h > 100 * MaxItemQuantity)
         THEN "quantity"
    ELSE IF body.is_checked \notin {"missing", "true", "false"}
         THEN "is_checked"
    ELSE ""

\* Row level security of table shopping_list_items: the items of the
\* caller's own list
VisibleItems(uid) ==
    {it \in shopping_list_items :
        \E l \in ListsOf(uid) : l.id = it.shopping_list_id}

\* Steps 1 to 4: validation and the select of the item (id 0 stands for a
\* blank id parameter, quantity is given in hundredths)
PatchStart(c, req) ==
    /\ calls[c] = IdleCall
    /\ IF req.id = 0
       THEN Answer(c, req, jsonError("VALIDATION_ERROR", 400, "id"))
       ELSE IF req.auth \notin Users
       THEN Answer(c, req, jsonError("AUTHENTICATION_ERROR", 401, ""))
       ELSE IF req.body.kind = "invalid_json"
       THEN Answer(c, req, jsonError("VALIDATION_ERROR", 400, ""))
       ELSE IF req.body.kind = "null"
       THEN Answer(c, req, jsonError("INTERNAL_ERROR", 500, ""))
       ELSE IF PatchErrorField(req.body) # ""
       THEN Answer(c, req, jsonError("VALIDATION_ERROR", 400,
                       IF PatchErrorField(req.body) = "body" THEN ""
                       ELSE PatchErrorField(req.body)))
       ELSE IF \/ \A it \in VisibleItems(req.auth) : it.id # req.id
               \/ req.dbError = "select"
       THEN Answer(c, req, jsonError("NOT_FOUND", 404, ""))
       ELSE Continue(c, req, "update", <<>>)
    /\ UNCHANGED <<recipes, recipe_ingredients, shopping_lists,
                   shopping_list_items, next_id, request, response,
                   ingredients, buckets, clock>>

\* updates applied to the row
UpdatedItem(it, body) ==
    [it EXCEPT
        !.quantity = IF body.quantity.t = "undefined" THEN @
                     ELSE Round2(NumFromRatio(body.quantity.h, 100)),
        !.is_checked = IF body.is_checked = "missing" THEN @
                       ELSE body.is_checked = "true"]

\* Steps 5 to 8: the update of the item, which finds no row when the item
\* was deleted since step 4
PatchUpdate(c) ==
    /\ calls[c].pc = "update"
    /\ calls[c].req.op = "patch"
    /\ LET req == calls[c].req
       IN  IF \/ \A it \in VisibleItems(req.auth) : it.id # req.id
              \/ req.dbError = "update"
           THEN /\ Answer(c, req, jsonError("INTERNAL_ERROR", 500, ""))
                /\ UNCHANGED shopping_list_items
           ELSE LET item == CHOOSE it \in shopping_list_items :
                                it.id = req.id
                IN  /\ shopping_list_items' =
                           (shopping_list_items \ {item})
                           \cup {UpdatedItem(item, req.body)}
                    /\ Answer(c, req, JsonOk(UpdatedItem(item, req.body)))
    /\ UNCHANGED <<recipes, recipe_ingredients, shopping_lists, next_id,
                   request, response, ingredients, buckets, clock>>

ClearRequests ==
    {r \in [op : {"clear"}, auth : AuthValues,
            dbError : {"none", "count", "delete"}] :
        r.dbError # "none" => r.auth = "u1"}

PatchBodies ==
    {[kind |-> k, quantity |-> Undefined, is_checked |-> "missing"] :
         k \in {"invalid_json", "null", "object"}}
    \cup {[kind |-> "object", quantity |-> Undefined, is_checked |-> b] :
              b \in {"true", "false", "text"}}
    \cup {[kind |-> "object", quantity |-> q, is_checked |-> "missing"] :
              q \in {JsString(1), JsNumber(0), JsNumber(250),
                     JsNumber(100 * MaxItemQuantity + 1)}}

\* Checking and unchecking of every item by every caller; the other bodies
\* and the failures of the database for the first item of u1
PatchRequests ==
    {r \in [op : {"patch"}, id : {0, 1, 2, 3, 9}, auth : AuthValues,
            body : PatchBodies, dbError : {"none", "select", "update"}] :
        LET toggles == /\ r.body.kind = "object"
                       /\ r.body.is_checked \in {"true", "false"}
        IN  /\ (r.id # 1 \/ r.auth # "u1") =>
                   toggles /\ r.body.is_checked = "true"
            /\ r.dbError # "none" =>
                   toggles /\ r.body.is_checked = "true"}

ShoppingItem(id, listId, name, checked) ==
    [id |-> id, shopping_list_id |-> listId, source_recipe_id |-> NullStr,
     name |-> name, quantity |-> Hundredths(100), unit |-> Cup,
     category |-> NullStr, is_checked |-> checked]

\* The list of u1 with two items, the list of u2 (if u2 has one) with one
\* item, each item checked or not
InitChecked ==
    /\ recipes = <<>>
    /\ recipe_ingredients = {}
    /\ \E second \in BOOLEAN, checked \in [1..3 -> BOOLEAN] :
           /\ shopping_lists =
                  {[id |-> 1, user_id |-> "u1"]}
                  \cup (IF second THEN {[id |-> 2, user_id |-> "u2"]}
                        ELSE {})
           /\ shopping_list_items =
                  {ShoppingItem(1, 1, Flour, checked[1]),
                   ShoppingItem(2, 1, Milk, checked[2])}
                  \cup (IF second
                        THEN {ShoppingItem(3, 2, Salt, checked[3])}
                        ELSE {})
           /\ ~second => checked[3]
    /\ next_id = 4
    /\ request = NoRequest
    /\ response = NoResponse
    /\ ingredients = {}
    /\ calls = [c \in Callers |-> IdleCall]
    /\ buckets = NoBuckets
    /\ clock = 0

NextChecked ==
    \/ \E c \in Callers, req \in ClearRequests : ClearStart(c, req)
    \/ \E c \in Callers : ClearCount(c)
    \/ \E c \in Callers : ClearDelete(c)
    \/ \E c \in Callers, req \in PatchRequests : PatchStart(c, req)
    \/ \E c \in Callers : PatchUpdate(c)
    \/ \E c \in Callers : Return(c)

SpecChecked == InitChecked /\ [][NextChecked]_vars

(***************************************************************************)
(* Get-or-create of the caller's shopping list, in GET /api/shopping-lists,*)
(* POST /api/shopping-lists/items and POST /api/shopping-lists/generate    *)
(***************************************************************************)
MaxItemNameLength == 200
MaxItemUnitLength == 50
MaxItemCategoryLength == 100

\* unique index idx_shopping_lists_user_id on shopping_lists(user_id)
UniqueUserIdMutant(uid) == TRUE

\* unique index idx_shopping_lists_user_id on shopping_lists(user_id)
UniqueUserId(uid) == ListsOf(uid) = {}

\* POST /api/shopping-lists/items, step 2: the field in error or ""
\* (quantity in hundredths; a missing name or unit is the empty text)
AddItemErrorField(body) ==
    IF Trim(body.name) = <<>> \/ Len(body.name) > MaxItemNameLength
    THEN "name"
    ELSE IF \/ ~TypeofNumber(body.quantity)
            \/ body.quantity.h <= 0
            \/ body.quantity.h > 100 * MaxItemQuantity
         THEN "quantity"
    ELSE IF Trim(body.unit) = <<>> \/ Len(body.unit) > MaxItemUnitLength
         THEN "unit"
    ELSE IF /\ ~body.category.null
            /\ Len(body.category.s) > MaxItemCategoryLength
         THEN "category"
    ELSE ""

\* POST /api/shopping-lists/generate, steps 1 to 3: the error response of
\* the steps before the select of the shopping list, or NoResponse
GenerateBeforeList(req) ==
    IF req.body.kind = "invalid_json"
    THEN jsonError("VALIDATION_ERROR", 400, "")
    ELSE IF req.body.kind = "null"
    THEN jsonError("INTERNAL_ERROR", 500, "")
    ELSE IF \/ ~req.body.is_array
            \/ Len(req.body.recipe_ids) = 0
            \/ Len(req.body.recipe_ids) > MaxRecipeIds
    THEN jsonError("VALIDATION_ERROR", 400, "recipe_ids")
    ELSE IF req.body.replace_existing \notin {"true", "false"}
    THEN jsonError("VALIDATION_ERROR", 400, "replace_existing")
    ELSE IF req.dbError = "recipes"
    THEN jsonError("INTERNAL_ERROR", 500, "")
    ELSE IF Cardinality(VisibleRecipes(req.auth)
                            \cap Range(req.body.recipe_ids))
                # Len(req.body.recipe_ids)
    THEN jsonError("NOT_FOUND", 404, "")
    ELSE IF unauthorizedRecipes(VisibleRecipes(req.auth)
                                    \cap Range(req.body.recipe_ids),
                                req.auth) # {}
    THEN jsonError("AUTHORIZATION_ERROR", 403, "")
    ELSE NoResponse

\* The error response of the steps before the select of the shopping list,
\* or NoResponse
BeforeList(req) ==
    IF req.auth \notin Users
    THEN jsonError("AUTHENTICATION_ERROR", 401, "")
    ELSE IF req.op = "generate" THEN GenerateBeforeList(req)
    ELSE IF req.op = "get" THEN NoResponse
    ELSE IF req.body.kind = "invalid_json"
    THEN jsonError("VALIDATION_ERROR", 400, "")
    ELSE IF req.body.kind = "null"
    THEN jsonError("INTERNAL_ERROR", 500, "")
    ELSE IF AddItemErrorField(req.body) # ""
    THEN jsonError("VALIDATION_ERROR", 400, AddItemErrorField(req.body))
    ELSE NoResponse

\* The steps up to the select of the caller's list with .single(), which
\* answers PGRST116 unless there is exactly one row
ListSelect(c, req) ==
    /\ calls[c] = IdleCall
    /\ next_id <= MaxNextId
    /\ IF BeforeList(req) # NoResponse
       THEN Answer(c, req, BeforeList(req))
       ELSE IF req.dbError = "shopping_lists_select"
       THEN Answer(c, req, jsonError("INTERNAL_ERROR", 500, ""))
       ELSE IF Cardinality(ListsOf(req.auth)) # 1
       THEN Continue(c, req, "create", <<>>)
       ELSE Continue(c, req, "items",
                     [list |-> (CHOOSE l \in ListsOf(req.auth) : TRUE).id])
    /\ UNCHANGED <<recipes, recipe_ingredients, shopping_lists,
                   shopping_list_items, next_id, request, response,
                   ingredients, buckets, clock>>

\* The insert of the caller's list after PGRST116; the unique index refuses
\* a second list of the user
ListInsert(c) ==
    /\ calls[c].pc = "create"
    /\ LET req == calls[c].req
       IN  IF req.dbError = "shopping_lists_insert"
              \/ ~UniqueUserId(req.auth)
           THEN /\ Answer(c, req, jsonError("INTERNAL_ERROR", 500, ""))
                /\ UNCHANGED <<shopping_lists, next_id>>
           ELSE /\ shopping_lists' =
                       shopping_lists
                       \cup {[id |-> next_id, user_id |-> req.auth]}
                /\ next_id' = next_id + 1
                /\ Continue(c, req, "items", [list |-> next_id])
    /\ UNCHANGED <<recipes, recipe_ingredients, shopping_list_items,
                   request, response, ingredients, buckets, clock>>

\* POST /api/shopping-lists/items, step 4
NewItem(body, listId, id) ==
    [id |-> id, shopping_list_id |-> listId, source_recipe_id |-> NullStr,
     name |-> Trim(body.name),
     quantity |-> Round2(NumFromRatio(body.quantity.h, 100)),
     unit |-> Trim(body.unit),
     category |-> IF StrTruthy(body.category)
                  THEN Str(Trim(body.category.s)) ELSE NullStr,
     is_checked |-> FALSE]

\* GET /api/shopping-lists: the select of the items of the list
ListItemsGet(c) ==
    /\ calls[c].pc = "items"
    /\ calls[c].req.op = "get"
    /\ LET req == calls[c].req
       IN  IF req.dbError = "items"
           THEN Answer(c, req, jsonError("INTERNAL_ERROR", 500, ""))
           ELSE Answer(c, req,
                    JsonOk([id |-> calls[c].list,
                            items |-> {it \in shopping_list_items :
                                it.shopping_list_id = calls[c].list}]))
    /\ UNCHANGED <<recipes, recipe_ingredients, shopping_lists,
                   shopping_list_items, next_id, request, response,
                   ingredients, buckets, clock>>

\* POST /api/shopping-lists/items, steps 4 to 6: the insert of the item
ListItemsAdd(c) ==
    /\ calls[c].pc = "items"
    /\ calls[c].req.op = "add"
    /\ LET req == calls[c].req
           newItem == NewItem(req.body, calls[c].list, next_id)
       IN  IF req.dbError = "insert"
           THEN /\ Answer(c, req, jsonError("INTERNAL_ERROR", 500, ""))
                /\ UNCHANGED <<shopping_list_items, next_id>>
           ELSE /\ shopping_list_items' = shopping_list_items \cup {newItem}
                /\ next_id' = next_id + 1
                /\ Answer(c, req, JsonStatus(201, newItem))
    /\ UNCHANGED <<recipes, recipe_ingredients, shopping_lists, request,
                   response, ingredients, buckets, clock>>

\* POST /api/shopping-lists/generate, steps 5 to 9, with the list of the
\* caller found or created before: GenerateOutcome takes the steps after
\* the list, the recipes being the ones of step 3
ListItemsGenerate(c) ==
    /\ calls[c].pc = "items"
    /\ calls[c].req.op = "generate"
    /\ \E rows \in Orderings(FetchedIngredients(calls[c].req)) :
         \E out \in {GenerateOutcome(calls[c].req, rows)} :
              /\ shopping_list_items' = out.items
              /\ next_id' = out.next_id
              /\ Answer(c, calls[c].req, out.response)
    /\ UNCHANGED <<recipes, recipe_ingredients, shopping_lists, request,
                   response, ingredients, buckets, clock>>

\* A failure of the select is drawn for u1; a failure of the insert of
\* the list is what the unique index produces
ListGetRequests ==
    {r \in [op : {"get"}, auth : {"absent"} \cup Users,
            dbError : {"none", "shopping_lists_select"}] :
        r.dbError # "none" => r.auth = "u1"}

AddItemBody(name, quantity, unit, category) ==
    [kind |-> "object", name |-> name, quantity |-> quantity, unit |-> unit,
     category |-> category]

SaltItem == AddItemBody(Salt, JsNumber(150), Tsp, NullStr)

AddItemBodies ==
    {SaltItem,
     [SaltItem EXCEPT !.name = BlankText],
     [SaltItem EXCEPT !.quantity = JsNumber(0)],
     [SaltItem EXCEPT !.unit = <<>>]}

ListAddRequests ==
    {r \in [op : {"add"}, auth : {"invalid"} \cup Users,
            body : AddItemBodies, dbError : {"none", "insert"}] :
        /\ r.body # SaltItem => r.auth = "u1"
        /\ r.dbError # "none" => r.auth = "u1" /\ r.body = SaltItem}

ListGenerateRequests ==
    {r \in GenerateRequests :
        /\ r.auth = "u1"
        /\ r.body.kind = "object"
        /\ r.body.is_array
        /\ r.body.recipe_ids = <<RecipeId>>
        /\ r.body.replace_existing \in {"true", "false"}
        /\ r.dbError = "none"}

\* One public recipe of u1 with one line; no shopping list yet
InitLists ==
    /\ recipes = (RecipeId :> [servings |-> 4, is_public |-> TRUE,
                               user_id |-> "u1"])
    /\ recipe_ingredients = LinesFrom(GenerateCatalogue, RecipeId, 1, 1)
    /\ shopping_lists = {}
    /\ shopping_list_items = {}
    /\ next_id = 1
    /\ request = NoRequest
    /\ response = NoResponse
    /\ ingredients = {}
    /\ calls = [c \in Callers |-> IdleCall]
    /\ buckets = NoBuckets
    /\ clock = 0

NextLists ==
    \/ \E c \in Callers,
          req \in ListGetRequests \cup ListAddRequests
                      \cup ListGenerateRequests : ListSelect(c, req)
    \/ \E c \in Callers : ListInsert(c)
    \/ \E c \in Callers : ListItemsGet(c)
    \/ \E c \in Callers : ListItemsAdd(c)
    \/ \E c \in Callers : ListItemsGenerate(c)
    \/ \E c \in Callers : Return(c)

SpecLists == InitLists /\ [][NextLists]_vars

(***************************************************************************)
(* getOrCreateIngredient(supabase, normalizedName, displayName), called    *)
(* with the client of an authenticated user                                *)
(***************************************************************************)
FlourUpper == <<"F", "l", "o", "u", "r">>

\* name text not null unique, and the unique index on lower(name)
IngredientNameUnique(name) ==
    \A r \in ingredients :
        r.name # name /\ ToLowerCase(r.name) # ToLowerCase(name)

\* check (name = lower(trim(name))) and check (length(trim(name)) > 0)
ChkIngredientName(name) ==
    name = ToLowerCase(Trim(name)) /\ Len(Trim(name)) > 0

\* .from('ingredients').select('*').eq('name', normalizedName)
SelectByName(name) == {r \in ingredients : r.name = name}

RacedSelectMutant(name) == {}

\* the second select, after a failed insert
RacedSelect(name) == SelectByName(name)

\* the call returns row, which is the value of the variable via
Returned(row, via) == [thrown |-> FALSE, row |-> <<row>>, via |-> via]

Thrown == [thrown |-> TRUE, row |-> <<>>, via |-> ""]

\* The first select
IngredientSelect(c, req) ==
    /\ calls[c] = IdleCall
    /\ next_id <= MaxNextId
    /\ IF req.dbError = "select"
       THEN Answer(c, req, Thrown)
       ELSE IF SelectByName(req.normalizedName) # {}
       THEN Answer(c, req,
                   Returned(CHOOSE r \in SelectByName(req.normalizedName) :
                                TRUE, "existing"))
       ELSE Continue(c, req, "insert", <<>>)
    /\ UNCHANGED <<recipes, recipe_ingredients, shopping_lists,
                   shopping_list_items, next_id, request, response,
                   ingredients, buckets, clock>>

\* The insert; after insertError the call goes on with the second select
IngredientInsert(c) ==
    /\ calls[c].pc = "insert"
    /\ LET req == calls[c].req
           inserted == [id |-> next_id, name |-> req.normalizedName,
                        display_name |-> req.displayName,
                        category |-> NullStr]
       IN  IF \/ req.dbError = "insert"
              \/ ~IngredientNameUnique(req.normalizedName)
              \/ ~ChkIngredientName(req.normalizedName)
           THEN /\ Continue(c, req, "reselect", <<>>)
                /\ UNCHANGED <<ingredients, next_id>>
           ELSE /\ ingredients' = ingredients \cup {inserted}
                /\ next_id' = next_id + 1
                /\ Answer(c, req, Returned(inserted, "inserted"))
    /\ UNCHANGED <<recipes, recipe_ingredients, shopping_lists,
                   shopping_list_items, request, response, buckets, clock>>

\* The second select: the row of the request that won the race, or the
\* error of the insert
IngredientReselect(c) ==
    /\ calls[c].pc = "reselect"
    /\ LET req == calls[c].req
       IN  IF req.dbError # "reselect"
              /\ RacedSelect(req.normalizedName) # {}
           THEN Answer(c, req,
                       Returned(CHOOSE r \in
                                    RacedSelect(req.normalizedName) : TRUE,
                                "raced"))
           ELSE Answer(c, req, Thrown)
    /\ UNCHANGED <<recipes, recipe_ingredients, shopping_lists,
                   shopping_list_items, next_id, request, response,
                   ingredients, buckets, clock>>

\* Calls with a normalized name, and one with a name that is not
IngredientRequests ==
    {r \in [op : {"getOrCreateIngredient"},
            normalizedName : {Flour, Salt, FlourUpper},
            displayName : {FlourUpper},
            dbError : {"none", "select", "insert", "reselect"}] :
        r.dbError \in {"select", "reselect"} => r.normalizedName = Flour}

InitIngredients ==
    /\ recipes = <<>>
    /\ recipe_ingredients = {}
    /\ shopping_lists = {}
    /\ shopping_list_items = {}
    /\ next_id = 1
    /\ request = NoRequest
    /\ response = NoResponse
    /\ ingredients = {}
    /\ calls = [c \in Callers |-> IdleCall]
    /\ buckets = NoBuckets
    /\ clock = 0

NextIngredients ==
    \/ \E c \in Callers, req \in IngredientRequests :
           IngredientSelect(c, req)
    \/ \E c \in Callers : IngredientInsert(c)
    \/ \E c \in Callers : IngredientReselect(c)
    \/ \E c \in Callers : Return(c)

SpecIngredients == InitIngredients /\ [][NextIngredients]_vars

(***************************************************************************)
(* The rate limiter (src/lib/rateLimiter.ts) and the middleware.  The      *)
(* tokens of a bucket are binary64 numbers that are finite and not         *)
(* negative.                                                               *)
(***************************************************************************)
\* N < M for limb numbers without leading zero limbs
RECURSIVE BLess(_, _)
BLess(N, M) ==
    IF Len(N) # Len(M) THEN Len(N) < Len(M)
    ELSE IF N = <<>> THEN FALSE
    ELSE IF N[Len(N)] # M[Len(M)] THEN N[Len(N)] < M[Len(M)]
    ELSE BLess(SubSeq(N, 1, Len(N) - 1), SubSeq(M, 1, Len(M) - 1))

\* N - M - borrow for N >= M + borrow
RECURSIVE BSubBorrow(_, _, _)
BSubBorrow(N, M, borrow) ==
    IF N = <<>> THEN <<>>
    ELSE LET b == IF M = <<>> THEN 0 ELSE M[1]
             t == N[1] - b - borrow
         IN  <<(t + LimbBase) % LimbBase>>
             \o BSubBorrow(Tail(N), IF M = <<>> THEN <<>> ELSE Tail(M),
                           IF t < 0 THEN 1 ELSE 0)

BSub(N, M) == BNorm(BSubBorrow(N, M, 0))

\* x < y for numbers that are finite and not negative
NumLess(x, y) ==
    IF y.k = "zero" THEN FALSE
    ELSE IF x.k = "zero" THEN TRUE
    ELSE IF x.e # y.e THEN x.e < y.e
    ELSE BLess(x.m, y.m)

\* x - y for finite numbers x >= y >= 0
NumSub(x, y) ==
    IF y.k = "zero" THEN x
    ELSE IF x = y THEN NumZero
    ELSE LET e == IF x.e < y.e THEN x.e ELSE y.e
         IN  RoundToDouble(1, BSub(BShl(x.m, x.e - e), BShl(y.m, y.e - e)),
                           e, FALSE)

NumInt(a) == NumFromRatio(a, 1)

MathMinMutant(x, y) == y

\* Math.min(x, y) for numbers that are finite and not negative
MathMin(x, y) == IF NumLess(y, x) THEN y ELSE x

\* Math.floor(x) of a number that is finite and not negative
MathFloor(x) ==
    IF x.k = "zero" THEN 0
    ELSE IF x.e >= 0 THEN BToInt(BShl(x.m, x.e))
    ELSE BToInt(BShr(x.m, -x.e))

WINDOW_MS == 60000
AUTHENTICATED_LIMIT == 100
ANONYMOUS_LIMIT == 20

refillTokens(bucket, limit, now) ==
    LET elapsed == now - bucket.lastRefill
        tokensToAdd == NumMul(NumFromRatio(elapsed, WINDOW_MS), NumInt(limit))
    IN  IF elapsed <= 0 THEN bucket
        ELSE [tokens |-> MathMin(NumInt(limit),
                                 NumAdd(bucket.tokens, tokensToAdd)),
              lastRefill |-> now]

\* The bucket of the key after the refill (a new bucket is full)
getBucket(key, limit, now) ==
    IF key \notin DOMAIN buckets
    THEN [tokens |-> NumInt(limit), lastRefill |-> now]
    ELSE refillTokens([buckets[key] EXCEPT
                           !.tokens = IF NumLess(NumInt(limit), @)
                                      THEN NumInt(limit) ELSE @],
                      limit, now)

\* consumeRateLimit(key, limit, now): the bucket it leaves and its result.
\* reset and retryAfterSeconds, which are computed from the bucket and
\* written to headers only, are left out of the result.
consumeRateLimit(key, limit, now) ==
    LET bucket == getBucket(key, limit, now)
    IN  IF ~NumLess(bucket.tokens, NumInt(1))
        THEN LET tokens == NumSub(bucket.tokens, NumInt(1))
             IN  [bucket |-> [bucket EXCEPT !.tokens = tokens],
                  limited |-> FALSE, limit |-> limit,
                  remaining |-> Max2(0, MathFloor(tokens))]
        ELSE [bucket |-> bucket, limited |-> TRUE, limit |-> limit,
              remaining |-> 0]

\* String.prototype.startsWith
StartsWith(s, prefix) ==
    Len(s) >= Len(prefix) /\ SubSeq(s, 1, Len(prefix)) = prefix

ApiPrefix == <<"/", "a", "p", "i", "/">>
ApiDocsPath == ApiPrefix \o <<"d", "o", "c", "s">>
ApiOpenApiPath ==
    ApiPrefix \o <<"o", "p", "e", "n", "a", "p", "i", ".", "j", "s", "o", "n">>
ApiRecipesPath == ApiPrefix \o <<"r", "e", "c", "i", "p", "e", "s">>
ApiRootPath == <<"/", "a", "p", "i">>
PagePath == <<"/", "r", "e", "c", "i", "p", "e", "s">>

RATE_LIMIT_EXCLUDED_PATHS == {ApiDocsPath, ApiOpenApiPath}

\* The key of the bucket: user:<id> for a valid token, else ip:<address>
RateLimitKey(req) ==
    IF req.auth \in Users THEN <<"user", req.auth>>
    ELSE <<"ip", req.clientIp>>

RateLimitOf(req) ==
    IF req.auth \in Users THEN AUTHENTICATED_LIMIT ELSE ANONYMOUS_LIMIT

\* The number of calls for the key with this limit at the instant the
\* bucket was created, this call included and counted up to limit + 2, or
\* 0 after that instant
BurstOf(key, limit, now) ==
    IF key \notin DOMAIN buckets THEN 1
    ELSE IF /\ request.op \in {"api", "consume"}
            /\ request.burst > 0
            /\ request.key = key
            /\ request.limit = limit
            /\ request.now = now
         THEN Min2(request.burst + 1, limit + 2)
    ELSE 0

\* Buckets of different keys do not interact: consumeRateLimit reads and
\* writes the bucket of its key only.  A behaviour follows the bucket of
\* one key.
OneKey(key) == DOMAIN buckets \subseteq {key}

\* onRequest: a request outside /api/ or for an excluded path goes to the
\* route handler; any other request takes a token of the caller's bucket
\* and is answered 429 without the route handler when there is none.
\* handled says whether next() was called (its response is taken as 200).
OnRequest(req) ==
    /\ IF \/ ~StartsWith(req.path, ApiPrefix)
          \/ req.path \in RATE_LIMIT_EXCLUDED_PATHS
       THEN /\ request' = [op |-> "next"]
            /\ response' = [status |-> 200, code |-> "", field |-> "",
                            data |-> <<>>, handled |-> TRUE]
            /\ UNCHANGED buckets
       ELSE /\ OneKey(RateLimitKey(req))
            /\ \E out \in {consumeRateLimit(RateLimitKey(req),
                                            RateLimitOf(req), clock)} :
                   /\ request' =
                          [op |-> "api", path |-> req.path,
                           auth |-> req.auth, clientIp |-> req.clientIp,
                           key |-> RateLimitKey(req),
                           limit |-> RateLimitOf(req), now |-> clock,
                           burst |-> BurstOf(RateLimitKey(req),
                                             RateLimitOf(req), clock),
                           rateLimitState |-> out]
                   /\ buckets' = (RateLimitKey(req) :> out.bucket) @@ buckets
                   /\ response' =
                          IF out.limited
                          THEN [status |-> 429,
                                code |-> "RATE_LIMIT_EXCEEDED",
                                field |-> "", data |-> <<>>,
                                handled |-> FALSE]
                          ELSE [status |-> 200, code |-> "", field |-> "",
                                data |-> <<>>, handled |-> TRUE]
    /\ UNCHANGED <<recipes, recipe_ingredients, shopping_lists,
                   shopping_list_items, next_id, ingredients, calls, clock>>

MaxLimit == 3

\* A call of consumeRateLimit with a limit of the caller's choice
Consume(key, limit) ==
    /\ OneKey(key)
    /\ \E out \in {consumeRateLimit(key, limit, clock)} :
           /\ request' = [op |-> "consume", key |-> key, limit |-> limit,
                          now |-> clock,
                          burst |-> BurstOf(key, limit, clock),
                          rateLimitState |-> out]
           /\ buckets' = (key :> out.bucket) @@ buckets
           /\ response' = NoResponse
    /\ UNCHANGED <<recipes, recipe_ingredients, shopping_lists,
                   shopping_list_items, next_id, ingredients, calls, clock>>

MaxNow == 3

\* Date.now() does not go back; it advances by 0.7 s or by 3 s
Elapse(ms) ==
    /\ clock + ms <= 1000 * MaxNow
    /\ clock' = clock + ms
    /\ UNCHANGED <<recipes, recipe_ingredients, shopping_lists,
                   shopping_list_items, next_id, request, response,
                   ingredients, calls, buckets>>

ClientAddress == "198.51.100.7"

\* Requests of a user, of a client with and without a token that is not
\* valid, and of a client without an address, for a path that is limited;
\* requests of the first client for the paths that are not
RateRequests ==
    {r \in [path : {ApiRecipesPath, ApiDocsPath, ApiOpenApiPath,
                    ApiRootPath, PagePath},
            auth : {"absent", "invalid", "u1"},
            clientIp : {ClientAddress, "unknown"}] :
        /\ r.clientIp = "unknown" => r.auth = "absent"
        /\ r.path # ApiRecipesPath =>
               r.auth = "absent" /\ r.clientIp = ClientAddress}

InitRateLimit ==
    /\ recipes = <<>>
    /\ recipe_ingredients = {}
    /\ shopping_lists = {}
    /\ shopping_list_items = {}
    /\ next_id = 1
    /\ request = NoRequest
    /\ response = NoResponse
    /\ ingredients = {}
    /\ calls = NoCalls
    /\ buckets = NoBuckets
    /\ clock = 0

NextRateLimit ==
    \/ \E req \in RateRequests : OnRequest(req)
    \/ \E limit \in 0..MaxLimit : Consume(<<"key", "k">>, limit)
    \/ \E ms \in {700, 3000} : Elapse(ms)

SpecRateLimit == InitRateLimit /\ [][NextRateLimit]_vars

(***************************************************************************)
(* Properties of recipe create and update                                  *)
(***************************************************************************)
\* C21: after any sequence of create and update requests, every stored
\* ingredient line that has no quantity_display (null or empty) has a
\* quantity greater than 0.
C21_QuantityPositiveWithoutDisplay ==
    \A ri \in recipe_ingredients :
        ~StrTruthy(ri.quantity_display) =>
            ~ri.quantity.null /\ ri.quantity.h > 0

\* an update replaced the lines of a recipe that a create request stored,
\* and a line without quantity_display is stored
C21_Witness ==
    /\ request.op = "update"
    /\ response.status = 200
    /\ request.body.is_array
    /\ \E ri \in recipe_ingredients :
           /\ ri.quantity_display.null
           /\ ri.quantity.h > 0

\* The answer to an update request is being given
UpdateStep ==
    /\ response = NoResponse
    /\ response' # NoResponse
    /\ request'.op = "update"

\* C29: an update request answered with VALIDATION_ERROR (400) leaves the
\* recipe rows and the ingredient lines as they were.
C29_ValidationErrorChangesNothing ==
    [][(UpdateStep /\ response'.code = "VALIDATION_ERROR") =>
           UNCHANGED <<recipes, recipe_ingredients>>]_vars

(***************************************************************************)
(* Properties of recipe visibility                                         *)
(***************************************************************************)
\* C22: a private recipe is returned only to its authenticated owner, a
\* caller without a valid token gets 401 and another user gets 403, both
\* without recipe content; a public recipe is returned to any caller.
C22_PrivateRecipeOnlyToOwner ==
    (/\ request.op = "get"
     /\ response # NoResponse
     /\ request.dbError = "none"
     /\ request.id \in DOMAIN recipes) =>
        IF recipes[request.id].is_public
               \/ recipes[request.id].user_id = request.auth
        THEN /\ response.status = 200
             /\ response.data[1].id = request.id
        ELSE /\ response.data = <<>>
             /\ response.status = IF request.auth \in Users THEN 403 ELSE 401

\* C23: published_at, once set, is never changed; it is set only by a
\* private -> public transition and unpublished_at only by a public ->
\* private transition; a step that leaves is_public leaves both.
C23_PublishedAtIsFirstPublication ==
    [][\A id \in DOMAIN recipes :
           /\ recipes[id].published_at # NullTime =>
                  recipes'[id].published_at = recipes[id].published_at
           /\ recipes'[id].published_at # recipes[id].published_at =>
                  ~recipes[id].is_public /\ recipes'[id].is_public
           /\ recipes'[id].unpublished_at # recipes[id].unpublished_at =>
                  recipes[id].is_public /\ ~recipes'[id].is_public
           /\ recipes'[id].is_public = recipes[id].is_public =>
                  /\ recipes'[id].published_at = recipes[id].published_at
                  /\ recipes'[id].unpublished_at
                         = recipes[id].unpublished_at]_vars

FeedOk == request.op = "feed" /\ response.status = 200

\* The public recipes that match the search and author filters of the
\* request answered
PublicMatching ==
    {id \in DOMAIN recipes :
        /\ recipes[id].is_public
        /\ Trim(request.search) # <<>> =>
               Ilike(recipes[id].title,
                     <<"%">> \o Trim(request.search) \o <<"%">>)
        /\ request.author # "" => recipes[id].user_id = request.author}

\* C24: every recipe in the data of the public feed is public, the total
\* counts no recipe that is private or fails a filter, and when the
\* database answers every query the total is the number of public recipes
\* that match the filters.
C24_FeedOnlyPublic ==
    FeedOk =>
        /\ \A i \in 1..Len(response.data[1].data) :
               recipes[response.data[1].data[i]].is_public
        /\ response.data[1].total <= Cardinality(PublicMatching)
        /\ request.dbError = "none" =>
               response.data[1].total = Cardinality(PublicMatching)

\* the owner of a private recipe reads the feed while the store holds that
\* private recipe and a public one, and gets the public one only
C24_Witness ==
    /\ FeedOk
    /\ request.auth = "u1"
    /\ \E id \in DOMAIN recipes :
           ~recipes[id].is_public /\ recipes[id].user_id = "u1"
    /\ response.data[1].data # <<>>
    /\ response.data[1].total = 1

(***************************************************************************)
(* Properties of requests that run at the same time                        *)
(***************************************************************************)
\* Caller c's clear-checked request deletes and answers in this step
ClearDeleteStep(c) ==
    /\ calls[c].pc = "delete"
    /\ calls[c].req.op = "clear"
    /\ calls'[c].pc = "done"
    /\ calls'[c].response.status = 200

\* C25: the delete of a clear-checked request removes exactly the checked
\* items of the caller's list, leaving the unchecked items and the items of
\* other users, and the deleted_count of the response is the number of
\* items removed, whatever check and uncheck requests ran in between.
C25_ClearCheckedCountsRemoved ==
    [][\A c \in Callers :
           ClearDeleteStep(c) =>
               /\ shopping_list_items' =
                      {it \in shopping_list_items :
                          ~(/\ it.is_checked
                            /\ \E l \in ListsOf(calls[c].req.auth) :
                                   l.id = it.shopping_list_id)}
               /\ calls'[c].response.data[1].deleted_count
                      = Cardinality(shopping_list_items
                                        \ shopping_list_items')]_vars

\* C26: after any interleaving of the steps of GET /api/shopping-lists,
\* add-item and generate requests every user has at most one shopping
\* list, and every item a request inserts references the single list of
\* the user who sent the request.
C26_OneListPerUser ==
    [][/\ \A u \in Users : Cardinality(ListsOf(u)') <= 1
       /\ \A c \in Callers :
              calls'[c] # calls[c] =>
                  \A it \in shopping_list_items' \ shopping_list_items :
                      ListsOf(calls[c].req.auth)'
                          = {[id |-> it.shopping_list_id,
                              user_id |-> calls[c].req.auth]}]_vars

\* Two requests of one user found no list; the first created it and added
\* its item, the second was refused by the unique index
C26_Witness ==
    \E c1, c2 \in Callers, u \in Users :
        /\ calls[c1].pc = "done" /\ calls[c2].pc = "done"
        /\ calls[c1].req.auth = u /\ calls[c2].req.auth = u
        /\ calls[c1].req.op = "add" /\ calls[c1].response.status = 201
        /\ calls[c2].req.op = "get" /\ calls[c2].req.dbError = "none"
        /\ calls[c2].response.status = 500
        /\ \E it \in shopping_list_items :
               ListsOf(u) = {[id |-> it.shopping_list_id, user_id |-> u]}

\* C27: for any interleaving of getOrCreateIngredient calls at most one
\* row of table ingredients has a given name, and every call with a
\* normalized name whose statements succeed (the insert failing only on
\* the unique name) returns that row; a call that lost the insert race
\* does not throw.
C27_OneIngredientPerName ==
    /\ \A r1, r2 \in ingredients : r1.name = r2.name => r1 = r2
    /\ \A c \in Callers :
           (/\ calls[c].pc = "done"
            /\ calls[c].req.dbError = "none"
            /\ ChkIngredientName(calls[c].req.normalizedName))
           => /\ ~calls[c].response.thrown
              /\ calls[c].response.row[1] \in ingredients
              /\ calls[c].response.row[1].name
                     = calls[c].req.normalizedName

\* Two calls for the same name have returned the same row, one its
\* inserted row and the other the row it selected after its insert failed
C27_Witness ==
    \E c1, c2 \in Callers :
        /\ calls[c1].pc = "done" /\ calls[c2].pc = "done"
        /\ calls[c1].req.dbError = "none" /\ calls[c2].req.dbError = "none"
        /\ calls[c1].response.via = "inserted"
        /\ calls[c2].response.via = "raced"
        /\ calls[c1].response.row = calls[c2].response.row

\* C28: a generate request that is answered with an error leaves the
\* shopping-list items as they were before the request, also when
\* replace_existing is true and a statement after the delete fails.
C28_FailedGenerateKeepsItems ==
    [][(GenerateStep /\ response'.status >= 400) =>
           shopping_list_items' = shopping_list_items]_vars

(***************************************************************************)
(* Properties of the rate limiter                                          *)
(***************************************************************************)
\* A call of consumeRateLimit is made in this step
ConsumeStep ==
    /\ request' # request \/ buckets' # buckets
    /\ request'.op \in {"api", "consume"}

\* C30: after every call of consumeRateLimit the bucket of the key holds
\* 0 <= tokens <= limit; the call is limited exactly when the bucket holds
\* less than 1 token after the refill, and then takes nothing, else it
\* takes one token; of the calls for a new key at one instant exactly the
\* first limit are not limited; and a limited API request is answered 429
\* without the route handler, any other API request reaches the handler.
C30_TokenBucket ==
    [][ConsumeStep =>
           LET key == request'.key
               limit == request'.limit
               refilled == getBucket(key, limit, clock)
               out == request'.rateLimitState
           IN  /\ ~NumLess(NumInt(limit), buckets'[key].tokens)
               /\ buckets'[key].tokens.k \in {"zero", "fin"}
               /\ buckets'[key].tokens.sg = 1
               /\ out.limited <=> NumLess(refilled.tokens, NumInt(1))
               /\ out.limited => buckets'[key].tokens = refilled.tokens
               /\ ~out.limited =>
                      NumAdd(buckets'[key].tokens, NumInt(1))
                          = refilled.tokens
               /\ request'.burst > 0 =>
                      (out.limited <=> request'.burst > limit)
               /\ request'.op = "api" =>
                      /\ out.limited =>
                             response'.status = 429 /\ ~response'.handled
                      /\ ~out.limited => response'.handled]_vars

\* The 21st request of an anonymous client at the instant of its first
\* request is answered 429 without the route handler
C30_Witness ==
    /\ request.op = "api"
    /\ request.limit = ANONYMOUS_LIMIT
    /\ request.burst = ANONYMOUS_LIMIT + 1
    /\ request.rateLimitState.limited
    /\ response.status = 429
    /\ ~response.handled
    /\ buckets[request.key].tokens = NumZero

\* A request of a user whose bucket was empty finds, 0.7 s later, the
\* bucket refilled to a token and a fraction of a token and takes the token
C30_WitnessRefill ==
    /\ request.op = "api"
    /\ request.limit = AUTHENTICATED_LIMIT
    /\ ~request.rateLimitState.limited
    /\ response.handled
    /\ buckets[request.key].tokens.k = "fin"
    /\ NumLess(buckets[request.key].tokens, NumInt(1))

====
